---- MODULE Spec2Model ----
(***************************************************************************)
(* A model of the in-memory task manager of a2a-go (package server):       *)
(* the task store guarded by tm.lock, and the SSE subscriber registry      *)
(* guarded by tm.subscriberLock with its unbuffered per-subscriber queues. *)
(* Go slices are modelled as (array, len, cap) headers over a heap of      *)
(* backing arrays, because the registry hands out and edits slices that    *)
(* share a backing array.                                                  *)
(***************************************************************************)
EXTENDS Integers, Sequences, FiniteSets, TLC

\* ------------------------------------------------------------------ bounds
MaxSubs == 3
MaxPub == 2
MaxStoreOps == 3
LocksMaxCalls == 4
StreamMaxCalls == 4
OpsMaxCalls == 3
CorrMaxCalls == 3
MaxKeys == 2
MaxSends == 2
ForgeMaxKeys == 1
ForgeMaxSends == 1
ForgeMaxTicks == 1
MaxChanges == 1
MaxTicks == 2
MaxChallenges == 2
DeliverMaxSends == 2
MaxModes == 2

\* ------------------------------------------------------------- value sets
Tasks == {"t1", "t2"}
Sessions == {"s1", "s2"}
Msgs == {"m1", "m2"}
ReqIds == {"r1", "r2"}
Procs == {1, 2}
Chans == 1..MaxSubs

Nil == 0
None == Nil
NoMsg == "nil"
NilArts == <<"nil">>
NoChan == Nil
NoArr == Nil

GoId(c) == 100 + c

\* types.TaskState
TaskSubmitted == "submitted"
TaskWorking == "working"
TaskInputNeeded == "input-required"
TaskCompleted == "completed"
TaskCanceled == "canceled"
TaskFailed == "failed"
TaskUnknown == "unknown"
TaskState ==
  {TaskSubmitted, TaskWorking, TaskInputNeeded, TaskCompleted, TaskCanceled,
   TaskFailed, TaskUnknown}

\* The kinds of value a caller hands to enqueueEventsForSSE:
\* *TaskStatusUpdateEvent (Final false / true), *TaskArtifactUpdateEvent,
\* *JSONRPCError.
EventKinds == {"status", "final", "artifact", "error"}

VARIABLES
  tasks,                 \* tm.tasks: map taskID -> Task
  pushNotificationInfos, \* tm.pushNotificationInfos
  lock,                  \* tm.lock: holder or None
  taskSSESubscribers,    \* tm.taskSSESubscribers: map taskID -> slice header
  subscriberLock,        \* tm.subscriberLock: holder or None
  heap,                  \* backing arrays of the subscriber slices
  chans,                 \* per created queue: its consumer goroutine and streams
  pc,                    \* per caller: position in the function it runs
  loc,                   \* per caller: locals of the function it runs
  hist,                  \* history of calls (for stating the claims)
  privateKey,            \* sender: s.privateKey, the signing key or Nil
  publicKeys,            \* sender: s.publicKeys, the published keys
  publicKey,             \* receiver: r.publicKey, the one trusted key or Nil
  clock,                 \* time.Now() at the sender and at the receiver
  wire,                  \* the push notification request on its way
  sent,                  \* the request as SendPushNotification made it
  verdict,               \* outcome of the receiver's last verification
  challenge,             \* the sender's last challenge of each URL and its outcome
  modalities             \* the last call of AreModalitiesCompatible and its result

storeVars == <<tasks, pushNotificationInfos, lock>>
muxVars == <<taskSSESubscribers, subscriberLock, heap, chans>>
authVars ==
  <<privateKey, publicKeys, publicKey, clock, wire, sent, verdict, challenge,
    modalities>>
vars ==
  <<tasks, pushNotificationInfos, lock, taskSSESubscribers, subscriberLock,
    heap, chans, pc, loc, hist, privateKey, publicKeys, publicKey, clock,
    wire, sent, verdict, challenge, modalities>>

\* ------------------------------------------------------------------ helpers
Put(f, k, v) == [x \in (DOMAIN f) \cup {k} |-> IF x = k THEN v ELSE f[x]]

Range(s) == {s[i] : i \in 1..Len(s)}

IsPrefix(s, t) == Len(s) <= Len(t) /\ SubSeq(t, 1, Len(s)) = s

NoEvent == [id |-> 0, kind |-> "-"]

NoTask == [ID |-> "-", SessionID |-> "-",
           Status |-> [State |-> "-", Message |-> NoMsg],
           Artifacts |-> NilArts, History |-> <<>>]

\* The record of a finished call: its inputs and what it returned (config: a
\* push notification config passed or returned; crash: the call ended in a
\* nil pointer dereference).
NoCall == [op |-> "-", id |-> "-", session |-> "-", message |-> NoMsg,
           status |-> [State |-> "-", Message |-> NoMsg], artifacts |-> NilArts,
           historyLength |-> None, ok |-> TRUE, result |-> NoTask,
           isResubscribe |-> FALSE, chan |-> NoChan, ev |-> NoEvent,
           snapSet |-> {}, snapLive |-> {}, handed |-> <<>>, config |-> "-",
           crash |-> FALSE]

\* The locals of a caller. For the claims, a call of enqueueEventsForSSE also
\* records: busy, the tasks that had a call of it running when this one started;
\* snapSet, who was registered when it read the registry; snapDead and snapLive,
\* those of them that had and had not been handed a final status update when
\* it started; handed, who it has handed its event to. call holds the
\* arguments of a store function that runs statement by statement, with the
\* outcome of its lookup (ok) and the stored task it found (result).
NoLoc == [task |-> "-", ev |-> NoEvent, arr |-> NoArr, len |-> 0,
          idx |-> 0, target |-> NoChan, snapSet |-> {}, snapLive |-> {},
          snapDead |-> {}, handed |-> <<>>, busy |-> {}, call |-> NoCall]

\* A queue made by setupSSEConsumer with the goroutine of dequeueEventsForSSE
\* that serves it: pc and held are the goroutine's position and its `event`,
\* out is what has been taken from responseChan, closed whether responseChan
\* is closed; recv (what the goroutine took from the queue) and from (how many
\* events had been published to the task at registration) are for the claims.
NoChanRec == [task |-> "-", pc |-> "created", req |-> "-", held |-> NoEvent,
              recv |-> <<>>, out |-> <<>>, closed |-> FALSE, from |-> 0]

\* ---------------------------------------------------------------- the store
\* upsertTask: the Task value created for an unknown identifier.
NewTask(id, sessionID, message) ==
  [ID |-> id, SessionID |-> sessionID,
   Status |-> [State |-> TaskSubmitted, Message |-> NoMsg],
   Artifacts |-> NilArts, History |-> <<message>>]

\* upsertTask as it would be if it stored a fresh Task on every call.
upsertTask_Overwrite(ts, id, sessionID, message) ==
  Put(ts, id, NewTask(id, sessionID, message))

\* upsertTask: the map after the call.
upsertTask(ts, id, sessionID, message) ==
  IF id \notin DOMAIN ts
  THEN Put(ts, id, NewTask(id, sessionID, message))
  ELSE [ts EXCEPT ![id].History = Append(@, message)]

\* updateStore as it would be if it replaced the artifacts by the new ones.
updateTask_ReplaceArtifacts(task, status, artifacts) ==
  LET t1 == [task EXCEPT !.Status = status]
      t2 == IF status.Message /= NoMsg
            THEN [t1 EXCEPT !.History = Append(@, status.Message)]
            ELSE t1
  IN IF artifacts /= NilArts
     THEN [t2 EXCEPT !.Artifacts = artifacts]
     ELSE t2

\* updateStore: the stored task after a successful call.
updateTask(task, status, artifacts) ==
  LET t1 == [task EXCEPT !.Status = status]
      t2 == IF status.Message /= NoMsg
            THEN [t1 EXCEPT !.History = Append(@, status.Message)]
            ELSE t1
  IN IF artifacts /= NilArts
     THEN [t2 EXCEPT !.Artifacts =
             (IF @ = NilArts THEN <<>> ELSE @) \o artifacts]
     ELSE t2

\* updateStore as it would be if it stored a task for an unknown identifier.
updateStore_CreateMissing(ts, id, status, artifacts) ==
  IF id \notin DOMAIN ts
  THEN Put(ts, id, updateTask([NoTask EXCEPT !.ID = id], status, artifacts))
  ELSE [ts EXCEPT ![id] = updateTask(@, status, artifacts)]

\* updateStore: the map after the call ("task not found" leaves it as it is).
updateStore(ts, id, status, artifacts) ==
  IF id \notin DOMAIN ts
  THEN ts
  ELSE [ts EXCEPT ![id] = updateTask(@, status, artifacts)]

\* appendTaskHistory as it would be if it kept the oldest entries.
appendTaskHistory_Oldest(task, historyLength) ==
  IF historyLength /= None /\ historyLength > 0
  THEN IF Len(task.History) > historyLength
       THEN [task EXCEPT !.History = SubSeq(@, 1, historyLength)]
       ELSE task
  ELSE [task EXCEPT !.History = <<>>]

\* appendTaskHistory: the copy OnGetTask returns.
appendTaskHistory(task, historyLength) ==
  IF historyLength /= None /\ historyLength > 0
  THEN IF Len(task.History) > historyLength
       THEN [task EXCEPT !.History =
               SubSeq(@, Len(@) - historyLength + 1, Len(@))]
       ELSE task
  ELSE [task EXCEPT !.History = <<>>]

StatusInputs ==
  [State : TaskState, Message : Msgs \cup {NoMsg}]

ArtifactInputs == {NilArts, <<>>, <<"a1">>}

HistoryLengths == {None, -1, 1, 2, 10}

\* The calls past their Lock that count against a budget of calls: registrations,
\* publishes and store writes. AllCalls is a budget that never binds.
Calls == Len(chans) + hist.nPub + hist.storeOps

AllCalls == MaxSubs + MaxPub + MaxStoreOps

\* upsertTask as it would be without tm.lock.
UpsertLock_NoMutex(p, maxOps, maxCalls) ==
  /\ pc[p] = "idle"
  /\ hist.storeOps < maxOps
  /\ Calls < maxCalls
  /\ pc' = [pc EXCEPT ![p] = "upsert"]
  /\ UNCHANGED <<tasks, pushNotificationInfos, lock, muxVars, loc, hist, authVars>>

\* tm.lock.Lock() at the head of upsertTask.
UpsertLock(p, maxOps, maxCalls) ==
  /\ pc[p] = "idle"
  /\ lock = None
  /\ hist.storeOps < maxOps
  /\ Calls < maxCalls
  /\ lock' = p
  /\ pc' = [pc EXCEPT ![p] = "upsert"]
  /\ UNCHANGED <<tasks, pushNotificationInfos, muxVars, loc, hist, authVars>>

\* upsertTask as it would be if it put the message in front of the history.
UpsertBody_Prepend(p, TaskIn, SessIn, MsgIn) ==
  /\ pc[p] = "upsert"
  /\ \E id \in TaskIn, s \in SessIn, m \in MsgIn :
       /\ tasks' = IF id \notin DOMAIN tasks
                    THEN Put(tasks, id, NewTask(id, s, m))
                    ELSE [tasks EXCEPT ![id].History = <<m>> \o @]
       /\ hist' = [hist EXCEPT
            !.storeOps = @ + 1,
            !.last = [NoCall EXCEPT !.op = "upsert", !.id = id, !.session = s,
                                    !.message = m, !.ok = TRUE,
                                    !.result = tasks'[id]]]
  /\ lock' = None
  /\ pc' = [pc EXCEPT ![p] = "idle"]
  /\ UNCHANGED <<pushNotificationInfos, muxVars, loc, authVars>>

\* The body of upsertTask and the deferred Unlock.
UpsertBody(p, TaskIn, SessIn, MsgIn) ==
  /\ pc[p] = "upsert"
  /\ \E id \in TaskIn, s \in SessIn, m \in MsgIn :
       /\ tasks' = upsertTask(tasks, id, s, m)
       /\ hist' = [hist EXCEPT
            !.storeOps = @ + 1,
            !.last = [NoCall EXCEPT !.op = "upsert", !.id = id, !.session = s,
                                    !.message = m, !.ok = TRUE,
                                    !.result = tasks'[id]]]
  /\ lock' = None
  /\ pc' = [pc EXCEPT ![p] = "idle"]
  /\ UNCHANGED <<pushNotificationInfos, muxVars, loc, authVars>>

\* tm.lock.Lock() at the head of updateStore.
UpdateLock(p, maxOps, maxCalls) ==
  /\ pc[p] = "idle"
  /\ lock = None
  /\ hist.storeOps < maxOps
  /\ Calls < maxCalls
  /\ lock' = p
  /\ pc' = [pc EXCEPT ![p] = "update"]
  /\ UNCHANGED <<tasks, pushNotificationInfos, muxVars, loc, hist, authVars>>

\* The body of updateStore and the deferred Unlock.
UpdateBody(p, TaskIn, StatusIn, ArtIn) ==
  /\ pc[p] = "update"
  /\ \E id \in TaskIn, status \in StatusIn, artifacts \in ArtIn :
       /\ tasks' = updateStore(tasks, id, status, artifacts)
       /\ hist' = [hist EXCEPT
            !.storeOps = @ + 1,
            !.last = [NoCall EXCEPT !.op = "update", !.id = id, !.status = status,
                                    !.artifacts = artifacts,
                                    !.ok = id \in DOMAIN tasks,
                                    !.result = IF id \in DOMAIN tasks
                                               THEN tasks'[id] ELSE NoTask]]
  /\ lock' = None
  /\ pc' = [pc EXCEPT ![p] = "idle"]
  /\ UNCHANGED <<pushNotificationInfos, muxVars, loc, authVars>>

\* tm.lock.Lock() at the head of OnGetTask.
GetLock(p) ==
  /\ pc[p] = "idle"
  /\ lock = None
  /\ lock' = p
  /\ pc' = [pc EXCEPT ![p] = "get"]
  /\ UNCHANGED <<tasks, pushNotificationInfos, muxVars, loc, hist, authVars>>

\* OnGetTask as it would be if it answered an unknown identifier with an empty
\* task.
GetLookup_ZeroTask(p, TaskIn) ==
  /\ pc[p] = "get"
  /\ \E id \in TaskIn :
       IF id \notin DOMAIN tasks
       THEN /\ pc' = [pc EXCEPT ![p] = "idle"]
            /\ hist' = [hist EXCEPT !.last =
                 [NoCall EXCEPT !.op = "get", !.id = id, !.ok = TRUE,
                                !.result = [NoTask EXCEPT !.ID = id]]]
            /\ loc' = loc
       ELSE /\ pc' = [pc EXCEPT ![p] = "get_copy"]
            /\ loc' = [loc EXCEPT ![p] = [NoLoc EXCEPT !.task = id]]
            /\ hist' = hist
  /\ lock' = None
  /\ UNCHANGED <<tasks, pushNotificationInfos, muxVars, authVars>>

\* OnGetTask: task := tm.tasks[ID]; Unlock; the nil result when there is none.
GetLookup(p, TaskIn) ==
  /\ pc[p] = "get"
  /\ \E id \in TaskIn :
       IF id \notin DOMAIN tasks
       THEN /\ pc' = [pc EXCEPT ![p] = "idle"]
            /\ hist' = [hist EXCEPT !.last =
                 [NoCall EXCEPT !.op = "get", !.id = id, !.ok = FALSE]]
            /\ loc' = loc
       ELSE /\ pc' = [pc EXCEPT ![p] = "get_copy"]
            /\ loc' = [loc EXCEPT ![p] = [NoLoc EXCEPT !.task = id]]
            /\ hist' = hist
  /\ lock' = None
  /\ UNCHANGED <<tasks, pushNotificationInfos, muxVars, authVars>>

\* OnGetTask as it would be if appendTaskHistory trimmed the stored task.
GetCopy_TrimStored(p, LenIn) ==
  /\ pc[p] = "get_copy"
  /\ \E n \in LenIn :
       /\ tasks' = [tasks EXCEPT ![loc[p].task] = appendTaskHistory(@, n)]
       /\ hist' = [hist EXCEPT !.last =
            [NoCall EXCEPT !.op = "get", !.id = loc[p].task, !.historyLength = n,
                           !.ok = TRUE, !.result = tasks'[loc[p].task]]]
  /\ pc' = [pc EXCEPT ![p] = "idle"]
  /\ loc' = [loc EXCEPT ![p] = NoLoc]
  /\ UNCHANGED <<pushNotificationInfos, lock, muxVars, authVars>>

\* OnGetTask: appendTaskHistory(task, HistoryLength), run after the Unlock on
\* the stored Task the pointer leads to.
GetCopy(p, LenIn) ==
  /\ pc[p] = "get_copy"
  /\ \E n \in LenIn :
       hist' = [hist EXCEPT !.last =
         [NoCall EXCEPT !.op = "get", !.id = loc[p].task, !.historyLength = n,
                        !.ok = TRUE,
                        !.result = appendTaskHistory(tasks[loc[p].task], n)]]
  /\ pc' = [pc EXCEPT ![p] = "idle"]
  /\ loc' = [loc EXCEPT ![p] = NoLoc]
  /\ UNCHANGED <<storeVars, muxVars, authVars>>

\* ------------------------------------- the store, statement by statement
\* upsertTask: task := tm.tasks[taskSendParams.ID] (ok: task /= nil).
UpsertFind(p, TaskIn, SessIn, MsgIn) ==
  /\ pc[p] = "upsert"
  /\ \E id \in TaskIn, s \in SessIn, m \in MsgIn :
       loc' = [loc EXCEPT ![p] = [NoLoc EXCEPT !.call =
         [NoCall EXCEPT !.op = "upsert", !.id = id, !.session = s,
                        !.message = m, !.ok = id \in DOMAIN tasks]]]
  /\ pc' = [pc EXCEPT ![p] = "upsert_store"]
  /\ hist' = [hist EXCEPT !.storeOps = @ + 1]
  /\ UNCHANGED <<storeVars, muxVars, authVars>>

\* upsertTask: the if/else on task == nil, return task and the deferred Unlock.
UpsertStore(p) ==
  /\ pc[p] = "upsert_store"
  /\ LET c == loc[p].call
     IN /\ tasks' = IF ~c.ok
                    THEN Put(tasks, c.id, NewTask(c.id, c.session, c.message))
                    ELSE [tasks EXCEPT ![c.id].History = Append(@, c.message)]
        /\ hist' = [hist EXCEPT !.last =
                      [c EXCEPT !.ok = TRUE, !.result = tasks'[c.id]]]
  /\ lock' = None
  /\ pc' = [pc EXCEPT ![p] = "idle"]
  /\ loc' = [loc EXCEPT ![p] = NoLoc]
  /\ UNCHANGED <<pushNotificationInfos, muxVars, authVars>>

\* updateStore: task := tm.tasks[taskID]; "task not found" and the deferred
\* Unlock when there is none.
UpdateFind(p, TaskIn, StatusIn, ArtIn) ==
  /\ pc[p] = "update"
  /\ \E id \in TaskIn, status \in StatusIn, artifacts \in ArtIn :
       LET c == [NoCall EXCEPT !.op = "update", !.id = id, !.status = status,
                               !.artifacts = artifacts,
                               !.ok = id \in DOMAIN tasks,
                               !.result = IF id \in DOMAIN tasks
                                          THEN tasks[id] ELSE NoTask]
       IN IF id \in DOMAIN tasks
          THEN /\ loc' = [loc EXCEPT ![p] = [NoLoc EXCEPT !.call = c]]
               /\ pc' = [pc EXCEPT ![p] = "update_status"]
               /\ hist' = [hist EXCEPT !.storeOps = @ + 1]
               /\ lock' = lock
          ELSE /\ loc' = loc
               /\ pc' = [pc EXCEPT ![p] = "idle"]
               /\ hist' = [hist EXCEPT !.storeOps = @ + 1, !.last = c]
               /\ lock' = None
  /\ UNCHANGED <<tasks, pushNotificationInfos, muxVars, authVars>>

\* updateStore: task.Status = status.
UpdateSetStatus(p) ==
  /\ pc[p] = "update_status"
  /\ tasks' = [tasks EXCEPT ![loc[p].call.id].Status = loc[p].call.status]
  /\ pc' = [pc EXCEPT ![p] = "update_history"]
  /\ UNCHANGED <<pushNotificationInfos, lock, muxVars, loc, hist, authVars>>

\* updateStore: if status.Message != nil, append it to task.History.
UpdateAppendHistory(p) ==
  /\ pc[p] = "update_history"
  /\ tasks' = IF loc[p].call.status.Message /= NoMsg
              THEN [tasks EXCEPT ![loc[p].call.id].History =
                      Append(@, loc[p].call.status.Message)]
              ELSE tasks
  /\ pc' = [pc EXCEPT ![p] = "update_artifacts"]
  /\ UNCHANGED <<pushNotificationInfos, lock, muxVars, loc, hist, authVars>>

\* updateStore: if artifacts != nil, append them to task.Artifacts; return
\* task and the deferred Unlock.
UpdateAppendArtifacts(p) ==
  /\ pc[p] = "update_artifacts"
  /\ LET c == loc[p].call
     IN /\ tasks' = IF c.artifacts /= NilArts
                    THEN [tasks EXCEPT ![c.id].Artifacts =
                            (IF @ = NilArts THEN <<>> ELSE @) \o c.artifacts]
                    ELSE tasks
        /\ hist' = [hist EXCEPT !.last = [c EXCEPT !.result = tasks'[c.id]]]
  /\ lock' = None
  /\ pc' = [pc EXCEPT ![p] = "idle"]
  /\ loc' = [loc EXCEPT ![p] = NoLoc]
  /\ UNCHANGED <<pushNotificationInfos, muxVars, authVars>>

\* ------------------------------------------- cancel and push notifications
\* tm.lock.Lock() at the head of OnCancelTask.
CancelLock(p) ==
  /\ pc[p] = "idle"
  /\ lock = None
  /\ lock' = p
  /\ pc' = [pc EXCEPT ![p] = "cancel"]
  /\ UNCHANGED <<tasks, pushNotificationInfos, muxVars, loc, hist, authVars>>

\* OnCancelTask: task := tm.tasks[ID]; Unlock; Result nil whether or not there
\* is a task (ok: task /= nil).
CancelLookup(p, TaskIn) ==
  /\ pc[p] = "cancel"
  /\ \E id \in TaskIn :
       hist' = [hist EXCEPT !.last =
         [NoCall EXCEPT !.op = "cancel", !.id = id, !.ok = id \in DOMAIN tasks]]
  /\ lock' = None
  /\ pc' = [pc EXCEPT ![p] = "idle"]
  /\ UNCHANGED <<tasks, pushNotificationInfos, muxVars, loc, authVars>>

PushConfigs == {"u1", "u2"}

\* tm.lock.Lock() at the head of setPushNotificationInfo.
SetPushLock(p) ==
  /\ pc[p] = "idle"
  /\ lock = None
  /\ lock' = p
  /\ pc' = [pc EXCEPT ![p] = "set_push"]
  /\ UNCHANGED <<tasks, pushNotificationInfos, muxVars, loc, hist, authVars>>

\* setPushNotificationInfo as it would be without its lookup of the task.
SetPushBody_NoLookup(p, TaskIn, ConfigIn) ==
  /\ pc[p] = "set_push"
  /\ \E id \in TaskIn, cfg \in ConfigIn :
       /\ pushNotificationInfos' = Put(pushNotificationInfos, id, cfg)
       /\ hist' = [hist EXCEPT !.last =
            [NoCall EXCEPT !.op = "set_push", !.id = id, !.ok = TRUE,
                           !.config = cfg]]
  /\ lock' = None
  /\ pc' = [pc EXCEPT ![p] = "idle"]
  /\ UNCHANGED <<tasks, muxVars, loc, authVars>>

\* OnSetTaskPushNotification: the body of setPushNotificationInfo with its
\* deferred Unlock, and the response (Result nil on "task not found").
SetPushBody(p, TaskIn, ConfigIn) ==
  /\ pc[p] = "set_push"
  /\ \E id \in TaskIn, cfg \in ConfigIn :
       /\ pushNotificationInfos' = IF id \in DOMAIN tasks
                                   THEN Put(pushNotificationInfos, id, cfg)
                                   ELSE pushNotificationInfos
       /\ hist' = [hist EXCEPT !.last =
            [NoCall EXCEPT !.op = "set_push", !.id = id,
                           !.ok = id \in DOMAIN tasks,
                           !.config = IF id \in DOMAIN tasks THEN cfg ELSE "-"]]
  /\ lock' = None
  /\ pc' = [pc EXCEPT ![p] = "idle"]
  /\ UNCHANGED <<tasks, muxVars, loc, authVars>>

\* tm.lock.Lock() at the head of getPushNotificationInfo.
GetPushLock(p) ==
  /\ pc[p] = "idle"
  /\ lock = None
  /\ lock' = p
  /\ pc' = [pc EXCEPT ![p] = "get_push"]
  /\ UNCHANGED <<tasks, pushNotificationInfos, muxVars, loc, hist, authVars>>

\* OnGetTaskPushNotification: the body of getPushNotificationInfo with its
\* deferred Unlock, and the response: Result nil on "task not found"; else
\* *notificationInfo is read, a nil pointer when the map has no entry.
GetPushBody(p, TaskIn) ==
  /\ pc[p] = "get_push"
  /\ \E id \in TaskIn :
       hist' = [hist EXCEPT !.last =
         [NoCall EXCEPT
            !.op = "get_push", !.id = id,
            !.ok = id \in DOMAIN tasks /\ id \in DOMAIN pushNotificationInfos,
            !.crash = id \in DOMAIN tasks /\ id \notin DOMAIN pushNotificationInfos,
            !.config = IF id \in DOMAIN tasks /\ id \in DOMAIN pushNotificationInfos
                       THEN pushNotificationInfos[id] ELSE "-"]]
  /\ lock' = None
  /\ pc' = [pc EXCEPT ![p] = "idle"]
  /\ UNCHANGED <<tasks, pushNotificationInfos, muxVars, loc, authVars>>

\* tm.lock.Lock() at the head of hasPushNotificationInfo.
HasPushLock(p) ==
  /\ pc[p] = "idle"
  /\ lock = None
  /\ lock' = p
  /\ pc' = [pc EXCEPT ![p] = "has_push"]
  /\ UNCHANGED <<tasks, pushNotificationInfos, muxVars, loc, hist, authVars>>

\* hasPushNotificationInfo: _, exists := tm.pushNotificationInfos[taskID].
HasPushBody(p, TaskIn) ==
  /\ pc[p] = "has_push"
  /\ \E id \in TaskIn :
       hist' = [hist EXCEPT !.last =
         [NoCall EXCEPT !.op = "has_push", !.id = id,
                        !.ok = id \in DOMAIN pushNotificationInfos]]
  /\ lock' = None
  /\ pc' = [pc EXCEPT ![p] = "idle"]
  /\ UNCHANGED <<tasks, pushNotificationInfos, muxVars, loc, authVars>>

\* ------------------------------------------------------- the event registry
EmptySlice == [arr |-> NoArr, len |-> 0, cap |-> 0]

\* The capacity append gives a slice of channels that is full (Go's growslice:
\* 0 -> 1, then doubling).
GrowCap(cap) == IF cap = 0 THEN 1 ELSE 2 * cap

\* append(s, c): in place when there is room, else into a new backing array.
appendChan(h, s, c) ==
  IF s.len < s.cap
  THEN [heap |-> [h EXCEPT ![s.arr][s.len + 1] = c],
        slice |-> [s EXCEPT !.len = @ + 1]]
  ELSE [heap |-> Append(h, [i \in 1..GrowCap(s.cap) |->
                    IF i <= s.len THEN h[s.arr][i]
                    ELSE IF i = s.len + 1 THEN c ELSE NoChan]),
        slice |-> [arr |-> Len(h) + 1, len |-> s.len + 1, cap |-> GrowCap(s.cap)]]

\* The first index of c in slice s, 0 when it is not there.
IndexOf(h, s, c) ==
  IF \E i \in 1..s.len : h[s.arr][i] = c
  THEN CHOOSE i \in 1..s.len :
         /\ h[s.arr][i] = c
         /\ \A j \in 1..(i - 1) : h[s.arr][j] /= c
  ELSE 0

\* append(subscribers[:i], subscribers[i+1:]...): shifts the tail down inside
\* the same backing array and leaves the last slot as it was.
removeChan(h, s, c) ==
  LET i == IndexOf(h, s, c)
  IN IF i = 0
     THEN [heap |-> h, slice |-> s]
     ELSE [heap |-> [h EXCEPT ![s.arr] =
                       [j \in 1..s.cap |->
                          IF j >= i /\ j < s.len THEN @[j + 1] ELSE @[j]]],
           slice |-> [s EXCEPT !.len = @ - 1]]

\* The subscribers the registry holds for a task.
Registered(t) ==
  IF t \in DOMAIN taskSSESubscribers
  THEN {heap[taskSSESubscribers[t].arr][i] : i \in 1..taskSSESubscribers[t].len}
  ELSE {}

GotFinal(c) == \E i \in 1..Len(chans[c].recv) : chans[c].recv[i].kind = "final"

Publishing(p) == pc[p] \in {"enq_read", "enq_send"}

\* tm.subscriberLock.Lock() at the head of setupSSEConsumer.
SetupLock(p, maxSubs, maxCalls) ==
  /\ pc[p] = "idle"
  /\ subscriberLock = None
  /\ Len(chans) < maxSubs
  /\ Calls < maxCalls
  /\ subscriberLock' = p
  /\ pc' = [pc EXCEPT ![p] = "setup"]
  /\ UNCHANGED <<storeVars, taskSSESubscribers, heap, chans, loc, hist, authVars>>

\* setupSSEConsumer as it would be without the test of isResubscribe.
SetupBody_AlwaysRegister(p, TaskIn) ==
  /\ pc[p] = "setup"
  /\ \E taskID \in TaskIn, isResubscribe \in BOOLEAN :
       LET s == IF taskID \in DOMAIN taskSSESubscribers
                THEN taskSSESubscribers[taskID] ELSE EmptySlice
           sseEventQueue == Len(chans) + 1
           r == appendChan(heap, s, sseEventQueue)
       IN /\ taskSSESubscribers' = Put(taskSSESubscribers, taskID, r.slice)
          /\ heap' = r.heap
          /\ chans' = Append(chans,
               [NoChanRec EXCEPT !.task = taskID,
                                 !.from = Len(hist.published[taskID])])
          /\ hist' = [hist EXCEPT !.last =
               [NoCall EXCEPT !.op = "setup", !.id = taskID, !.ok = TRUE,
                              !.isResubscribe = isResubscribe,
                              !.chan = sseEventQueue]]
  /\ subscriberLock' = None
  /\ pc' = [pc EXCEPT ![p] = "idle"]
  /\ UNCHANGED <<storeVars, loc, authVars>>

\* The body of setupSSEConsumer and the deferred Unlock.
SetupBody(p, TaskIn) ==
  /\ pc[p] = "setup"
  /\ \E taskID \in TaskIn, isResubscribe \in BOOLEAN :
       IF taskID \notin DOMAIN taskSSESubscribers /\ isResubscribe
       THEN /\ UNCHANGED <<taskSSESubscribers, heap, chans, authVars>>
            /\ hist' = [hist EXCEPT !.last =
                 [NoCall EXCEPT !.op = "setup", !.id = taskID, !.ok = FALSE,
                                !.isResubscribe = isResubscribe]]
       ELSE LET s == IF taskID \in DOMAIN taskSSESubscribers
                     THEN taskSSESubscribers[taskID] ELSE EmptySlice
                sseEventQueue == Len(chans) + 1
                r == appendChan(heap, s, sseEventQueue)
            IN /\ taskSSESubscribers' = Put(taskSSESubscribers, taskID, r.slice)
               /\ heap' = r.heap
               /\ chans' = Append(chans,
                    [NoChanRec EXCEPT !.task = taskID,
                                      !.from = Len(hist.published[taskID])])
               /\ hist' = [hist EXCEPT !.last =
                    [NoCall EXCEPT !.op = "setup", !.id = taskID, !.ok = TRUE,
                                   !.isResubscribe = isResubscribe,
                                   !.chan = sseEventQueue]]
  /\ subscriberLock' = None
  /\ pc' = [pc EXCEPT ![p] = "idle"]
  /\ UNCHANGED <<storeVars, loc, authVars>>

\* tm.subscriberLock.Lock() at the head of enqueueEventsForSSE.
EnqLock(p, maxPub, maxCalls) ==
  /\ pc[p] = "idle"
  /\ subscriberLock = None
  /\ hist.nPub < maxPub
  /\ Calls < maxCalls
  /\ subscriberLock' = p
  /\ pc' = [pc EXCEPT ![p] = "enq_locked"]
  /\ loc' = [loc EXCEPT ![p] =
       [NoLoc EXCEPT !.snapDead = {c \in 1..Len(chans) : GotFinal(c)},
                     !.busy = {loc[q].task : q \in {r \in Procs : Publishing(r)}}]]
  /\ UNCHANGED <<storeVars, taskSSESubscribers, heap, chans, hist, authVars>>

\* enqueueEventsForSSE: subscribers, exists := tm.taskSSESubscribers[taskID];
\* Unlock; return when there is no entry. `holder` is who holds the lock
\* afterwards.
EnqSnapshotThen(p, TaskIn, KindIn, holder) ==
  /\ pc[p] = "enq_locked"
  /\ \E taskID \in TaskIn, kind \in KindIn :
       LET ev == [id |-> hist.nPub + 1, kind |-> kind]
           exists == taskID \in DOMAIN taskSSESubscribers
           subscribers == IF exists THEN taskSSESubscribers[taskID] ELSE EmptySlice
       IN /\ pc' = [pc EXCEPT ![p] = IF exists THEN "enq_read" ELSE "idle"]
          /\ loc' = [loc EXCEPT ![p] =
               IF exists
               THEN [NoLoc EXCEPT
                       !.task = taskID, !.ev = ev, !.arr = subscribers.arr,
                       !.len = subscribers.len, !.idx = 1,
                       !.snapSet = Registered(taskID),
                       !.snapLive = Registered(taskID) \ loc[p].snapDead,
                       !.snapDead = Registered(taskID) \cap loc[p].snapDead]
               ELSE NoLoc]
          /\ hist' = [hist EXCEPT
               !.nPub = @ + 1,
               !.published[taskID] = Append(@, ev),
               !.overlap[taskID] =
                  \/ @
                  \/ taskID \in loc[p].busy
                  \/ \E q \in Procs : Publishing(q) /\ loc[q].task = taskID,
               !.last = IF exists THEN @
                        ELSE [NoCall EXCEPT !.op = "enqueue", !.id = taskID,
                                            !.ev = ev]]
  /\ subscriberLock' = holder
  /\ UNCHANGED <<storeVars, taskSSESubscribers, heap, chans, authVars>>

\* enqueueEventsForSSE as it would be if it kept tm.subscriberLock while it
\* sends.
EnqSnapshot_KeepLock(p, TaskIn, KindIn) == EnqSnapshotThen(p, TaskIn, KindIn, p)

\* enqueueEventsForSSE up to its Unlock, which comes before the loop.
EnqSnapshot(p, TaskIn, KindIn) == EnqSnapshotThen(p, TaskIn, KindIn, None)

\* enqueueEventsForSSE: the head of one round of `for _, subscriber := range
\* subscribers`: the loop ends after len(subscribers) rounds, else the next
\* element is read from the backing array (without the lock).
EnqRead(p) ==
  /\ pc[p] = "enq_read"
  /\ IF loc[p].idx > loc[p].len
     THEN /\ pc' = [pc EXCEPT ![p] = "idle"]
          /\ loc' = [loc EXCEPT ![p] = NoLoc]
          /\ hist' = [hist EXCEPT !.last =
               [NoCall EXCEPT !.op = "enqueue", !.id = loc[p].task,
                              !.ev = loc[p].ev, !.snapSet = loc[p].snapSet,
                              !.snapLive = loc[p].snapLive,
                              !.handed = loc[p].handed]]
     ELSE /\ pc' = [pc EXCEPT ![p] = "enq_send"]
          /\ loc' = [loc EXCEPT ![p].target = heap[loc[p].arr][loc[p].idx]]
          /\ hist' = hist
  /\ UNCHANGED <<storeVars, muxVars, authVars>>

\* `subscriber <- taskUpdateEvent` meeting `event, ok := <-sseEventQueue`: the
\* queue is unbuffered, so the send completes when the goroutine receives.
Handoff(p, c) ==
  /\ pc[p] = "enq_send"
  /\ loc[p].target = c
  /\ c \in 1..Len(chans)
  /\ chans[c].pc = "recv"
  /\ chans' = [chans EXCEPT ![c].pc = "fwd", ![c].held = loc[p].ev,
                            ![c].recv = Append(@, loc[p].ev)]
  /\ pc' = [pc EXCEPT ![p] = "enq_read"]
  /\ loc' = [loc EXCEPT ![p].idx = @ + 1, ![p].target = NoChan,
                        ![p].handed = Append(@, c)]
  /\ UNCHANGED <<storeVars, taskSSESubscribers, subscriberLock, heap, hist, authVars>>

\* dequeueEventsForSSE(requestID, taskID, sseEventQueue), called with the queue
\* and the task of one setupSSEConsumer call: starts the goroutine.
StartDequeue(c, ReqIn) ==
  /\ c \in 1..Len(chans)
  /\ chans[c].pc = "created"
  /\ \E requestID \in ReqIn :
       chans' = [chans EXCEPT ![c].pc = "recv", ![c].req = requestID]
  /\ UNCHANGED <<storeVars, taskSSESubscribers, subscriberLock, heap, pc, loc, hist, authVars>>

\* The response as it would be if every goroutine used the identifier of the
\* first one.
Response_FirstID(ch) ==
  [ID |-> chans[1].req,
   field |-> IF ch.held.kind = "error" THEN "Error" ELSE "Result",
   ev |-> ch.held]

\* The response the goroutine sends for the event it holds.
Response(ch) ==
  [ID |-> ch.req,
   field |-> IF ch.held.kind = "error" THEN "Error" ELSE "Result",
   ev |-> ch.held]

\* The goroutine as it would be without the test for a final status update.
AfterForward_NoFinalBreak(event) ==
  IF event.kind = "error" THEN "cleanup" ELSE "recv"

\* The position of the goroutine after it has sent the response for `event`:
\* an error or a final status update leaves the loop.
AfterForward(event) ==
  IF event.kind \in {"error", "final"} THEN "cleanup" ELSE "recv"

\* The goroutine as it would be if it went on receiving after an error.
Forward_NoErrorBreak(c) ==
  /\ c \in 1..Len(chans)
  /\ chans[c].pc = "fwd"
  /\ chans' = [chans EXCEPT
       ![c].out = Append(@, Response(chans[c])),
       ![c].held = NoEvent,
       ![c].pc = IF chans[c].held.kind = "final" THEN "cleanup" ELSE "recv"]
  /\ UNCHANGED <<storeVars, taskSSESubscribers, subscriberLock, heap, pc, loc, hist, authVars>>

\* The goroutine's `responseChan <- ...` taken by the reader of the stream, and
\* the test that follows it.
Forward(c) ==
  /\ c \in 1..Len(chans)
  /\ chans[c].pc = "fwd"
  /\ chans' = [chans EXCEPT
       ![c].out = Append(@, Response(chans[c])),
       ![c].held = NoEvent,
       ![c].pc = AfterForward(chans[c].held)]
  /\ UNCHANGED <<storeVars, taskSSESubscribers, subscriberLock, heap, pc, loc, hist, authVars>>

\* The deferred function of the goroutine: tm.subscriberLock.Lock().
CleanupLock(c) ==
  /\ c \in 1..Len(chans)
  /\ chans[c].pc = "cleanup"
  /\ subscriberLock = None
  /\ subscriberLock' = GoId(c)
  /\ chans' = [chans EXCEPT ![c].pc = "locked"]
  /\ UNCHANGED <<storeVars, taskSSESubscribers, heap, pc, loc, hist, authVars>>

\* The deferred function of the goroutine: take the queue out of the task's
\* slice, then Unlock.
CleanupRemove(c) ==
  /\ c \in 1..Len(chans)
  /\ chans[c].pc = "locked"
  /\ LET taskID == chans[c].task
         r == removeChan(heap, taskSSESubscribers[taskID], c)
     IN IF taskID \in DOMAIN taskSSESubscribers
        THEN /\ taskSSESubscribers' = [taskSSESubscribers EXCEPT ![taskID] = r.slice]
             /\ heap' = r.heap
        ELSE UNCHANGED <<taskSSESubscribers, heap, authVars>>
  /\ subscriberLock' = None
  /\ chans' = [chans EXCEPT ![c].pc = "closing"]
  /\ UNCHANGED <<storeVars, pc, loc, hist, authVars>>

\* The goroutine's first defer, run last: close(responseChan).
Close(c) ==
  /\ c \in 1..Len(chans)
  /\ chans[c].pc = "closing"
  /\ chans' = [chans EXCEPT ![c].pc = "done", ![c].closed = TRUE]
  /\ UNCHANGED <<storeVars, taskSSESubscribers, subscriberLock, heap, pc, loc, hist, authVars>>

\* ------------------------------------------- push notification authentication
\* Go values a payload (data map[string]interface{}) is made of: strings,
\* bools, structs (whose fields encode in declaration order), maps (whose keys
\* encode sorted) and the nil map.
GoString(s) == [go |-> "string", s |-> s]
GoBool(b) == [go |-> "bool", b |-> b]
GoStruct(fields) == [go |-> "struct", fields |-> fields]
GoMap(m) == [go |-> "map", m |-> m]
NilMap == [go |-> "nil"]
Field(name, value) == [name |-> name, value |-> value]

\* A TaskStatus without message, a TaskStatusUpdateEvent and a TextPart, with
\* their fields in the order the types declare them.
TaskStatusValue(state) ==
  GoStruct(<<Field("state", GoString(state)), Field("timestamp", GoString("ts"))>>)
TaskStatusUpdateEventValue(id, state, final) ==
  GoStruct(<<Field("id", GoString(id)),
             Field("status", TaskStatusValue(state)),
             Field("final", GoBool(final))>>)

\* The payloads handed to SendPushNotification: maps of decoded JSON values,
\* a map holding a typed event, and the nil map.
PlainPayloads ==
  {GoMap([id |-> GoString(t)]) : t \in Tasks}
    \cup {GoMap([id |-> GoString("t1"), final |-> GoBool(TRUE)])}
TypedPayloads ==
  {GoMap([event |-> TaskStatusUpdateEventValue("t1", TaskWorking, FALSE)])}
Payloads == PlainPayloads \cup TypedPayloads \cup {NilMap}

\* The bytes of a JSON text, token by token.
Punct(c) == [t |-> "punct", v |-> c]
Quoted(s) == [t |-> "string", v |-> s]
Literal(w) == [t |-> "literal", v |-> w]
Space == [t |-> "space", v |-> " "]
Newline == [t |-> "space", v |-> "\n"]

\* All the object keys in use, in the byte order encoding/json sorts map keys.
KeyOrder == <<"event", "final", "id", "state", "status", "timestamp">>

SortedFields(m) ==
  LET keys == SelectSeq(KeyOrder, LAMBDA k : k \in DOMAIN m)
  IN [i \in 1..Len(keys) |-> Field(keys[i], m[keys[i]])]

RECURSIVE Marshal(_)
RECURSIVE MarshalFields(_, _)
\* json.Marshal: a struct encodes its fields in declaration order, a map its
\* keys sorted, a nil map as null.
Marshal(v) ==
  CASE v.go = "nil" -> <<Literal("null")>>
    [] v.go = "string" -> <<Quoted(v.s)>>
    [] v.go = "bool" -> <<Literal(IF v.b THEN "true" ELSE "false")>>
    [] v.go = "struct" -> <<Punct("{")>> \o MarshalFields(v.fields, 1) \o <<Punct("}")>>
    [] v.go = "map" -> <<Punct("{")>> \o MarshalFields(SortedFields(v.m), 1) \o <<Punct("}")>>
MarshalFields(fs, i) ==
  IF i > Len(fs) THEN <<>>
  ELSE (IF i > 1 THEN <<Punct(",")>> ELSE <<>>)
         \o <<Quoted(fs[i].name), Punct(":")>> \o Marshal(fs[i].value)
         \o MarshalFields(fs, i + 1)

\* json.NewEncoder(buf).Encode: the marshalled value and a newline.
Encode(v) == Marshal(v) \o <<Newline>>

ParseFail == [ok |-> FALSE, v |-> NilMap, next |-> 0]
At(ts, i, tok) == i <= Len(ts) /\ ts[i] = tok

RECURSIVE ParseValue(_, _)
RECURSIVE ParseMembers(_, _, _)
\* The decoder, on the tokens that are not white space: a value at position i.
\* Objects decode into map[string]interface{}.
ParseValue(ts, i) ==
  IF i > Len(ts) THEN ParseFail
  ELSE CASE ts[i].t = "string" -> [ok |-> TRUE, v |-> GoString(ts[i].v), next |-> i + 1]
         [] ts[i] = Literal("true") -> [ok |-> TRUE, v |-> GoBool(TRUE), next |-> i + 1]
         [] ts[i] = Literal("false") -> [ok |-> TRUE, v |-> GoBool(FALSE), next |-> i + 1]
         [] ts[i] = Literal("null") -> [ok |-> TRUE, v |-> NilMap, next |-> i + 1]
         [] ts[i] = Punct("{") -> ParseMembers(ts, i + 1, <<>>)
         [] OTHER -> ParseFail
ParseMembers(ts, i, m) ==
  IF ~(i + 1 <= Len(ts) /\ ts[i].t = "string" /\ ts[i + 1] = Punct(":")) THEN ParseFail
  ELSE LET r == ParseValue(ts, i + 2)
           n == Put(m, ts[i].v, r.v)
       IN IF ~r.ok THEN ParseFail
          ELSE IF At(ts, r.next, Punct(",")) THEN ParseMembers(ts, r.next + 1, n)
          ELSE IF At(ts, r.next, Punct("}")) THEN [ok |-> TRUE, v |-> GoMap(n), next |-> r.next + 1]
          ELSE ParseFail

\* json.Unmarshal(bodyBytes, &requestBody) with its error dropped: requestBody
\* is the decoded object, and stays the nil map when the body is not valid
\* JSON, is null, or is not an object.
Unmarshal(body) ==
  LET ts == SelectSeq(body, LAMBDA tok : tok.t /= "space")
      r == ParseValue(ts, 1)
  IN [ok |-> r.ok /\ r.next = Len(ts) + 1 /\ r.v.go \in {"map", "nil"},
      v |-> IF r.ok /\ r.next = Len(ts) + 1 /\ r.v.go = "map" THEN r.v ELSE NilMap]

\* The hex SHA-256 of the encoded map: one digest per byte sequence.
calculateRequestBodySHA256(data) == [sha256 |-> Encode(data)]

\* Keys are numbered 1..MaxKeys in the order GenerateRSAKey makes them; one
\* more key pair belongs to nobody the receiver trusts.
IntruderKey == MaxKeys + 1

\* uuid.NewString(): a fresh identifier for the k-th key.
NewString(k) == "uuid-" \o ToString(k)

\* A PEM block: its type and the public key inside it.
Pem(k) == [type |-> "PUBLIC KEY", key |-> k]
\* What the command-line client passes to LoadJWKS: the address of the key
\* set, which is no PEM block.
JwksURL == [type |-> "", key |-> Nil]
\* What LoadJWKS can be given: a published key's PEM block, or the address.
PemInputs == {Pem(k) : k \in 1..MaxKeys} \cup {JwksURL}

\* 5*time.Minute, in seconds.
FreshnessWindow == 300

\* jwt.SigningMethodRS256 and the other methods of type *jwt.SigningMethodRSA.
SigningMethodRSA == {"RS256", "RS384", "RS512"}
Algs == {"RS256", "PS256", "HS256", "none"}

\* What a token's signature is computed over: its header and its claims.
Content(token) ==
  [alg |-> token.alg, kid |-> token.kid, iat |-> token.iat,
   request_body_sha256 |-> token.request_body_sha256]
Signed(content, key) == [key |-> key, over |-> content]

NoDigest == [sha256 |-> <<>>]
NoToken ==
  [alg |-> "none", kid |-> "", iat |-> 0, request_body_sha256 |-> NoDigest,
   sig |-> Signed([alg |-> "none", kid |-> "", iat |-> 0,
                   request_body_sha256 |-> NoDigest], Nil)]
NoRequest == [bearer |-> FALSE, token |-> NoToken, body |-> <<>>]
NoVerdict ==
  [op |-> "none", req |-> NoRequest, ok |-> FALSE, err |-> "", status |-> 0,
   at |-> 0, key |-> Nil, signed |-> NoRequest, data |-> NilMap,
   signer |-> Nil, published |-> {}]

\* GenerateRSAKey: the new key becomes the signing key and its public half is
\* appended to the published keys.
GenerateRSAKey(maxKeys) ==
  /\ Len(publicKeys) < maxKeys
  /\ LET k == Len(publicKeys) + 1
     IN /\ privateKey' = k
        /\ publicKeys' =
             Append(publicKeys, [alg |-> "RS256", use |-> "sig", kid |-> NewString(k),
                                 pem |-> Pem(k)])
  /\ UNCHANGED <<publicKey, clock, wire, sent, verdict>>
  /\ UNCHANGED <<storeVars, muxVars, pc, loc, hist, challenge, modalities>>

\* The public halves the sender has published.
Published == {publicKeys[i].pem.key : i \in 1..Len(publicKeys)}

\* LoadJWKS: a PEM block of type PUBLIC KEY replaces the receiver's one key;
\* anything else is an error and leaves it alone.
LoadJWKS(PemIn) ==
  /\ \E pemData \in PemIn :
       /\ pemData.type = "PUBLIC KEY" => pemData.key \in Published
       /\ IF pemData.type = "PUBLIC KEY"
          THEN publicKey' = pemData.key
          ELSE publicKey' = publicKey
  /\ UNCHANGED <<privateKey, publicKeys, clock, wire, sent, verdict>>
  /\ UNCHANGED <<storeVars, muxVars, pc, loc, hist, challenge, modalities>>

\* time.Now() moves on one of the two hosts.
Tick(h, maxTicks) ==
  /\ clock.ticks < maxTicks
  /\ \E d \in {1, FreshnessWindow} :
       clock' = [clock EXCEPT ![h] = @ + d, !.ticks = @ + 1]
  /\ UNCHANGED <<privateKey, publicKeys, publicKey, wire, sent, verdict>>
  /\ UNCHANGED <<storeVars, muxVars, pc, loc, hist, challenge, modalities>>

\* GenerateJWT: an RS256 token with the issue time and the digest of the
\* encoded payload, a fixed key identifier, signed with the private key.
GenerateJWT(data) ==
  LET content == [alg |-> "RS256", kid |-> "example-kid", iat |-> clock.sender,
                  request_body_sha256 |-> calculateRequestBodySHA256(data)]
  IN [alg |-> content.alg, kid |-> content.kid, iat |-> content.iat,
      request_body_sha256 |-> content.request_body_sha256,
      sig |-> Signed(content, privateKey)]

\* What client.Do comes back with: a transport error, or a response with its
\* status.
Delivered == [err |-> FALSE, status |-> 200]
Outcomes ==
  {Delivered, [err |-> TRUE, status |-> 0], [err |-> FALSE, status |-> 401],
   [err |-> FALSE, status |-> 500]}

\* SendPushNotification: one POST of the marshalled payload with the token as
\* bearer; the error of client.Do is returned, the response is closed unread.
SendPushNotification(DataIn, OutcomeIn, maxSends) ==
  /\ privateKey /= Nil
  /\ sent.n < maxSends
  /\ \E data \in DataIn, outcome \in OutcomeIn :
       LET req == [bearer |-> TRUE, token |-> GenerateJWT(data), body |-> Marshal(data)]
       IN /\ wire' = req
          /\ sent' = [n |-> sent.n + 1, data |-> data, req |-> req,
                      signer |-> privateKey, changes |-> sent.changes,
                      outcome |-> outcome,
                      err |-> IF outcome.err THEN "transport" ELSE ""]
  /\ UNCHANGED <<privateKey, publicKeys, publicKey, clock, verdict>>
  /\ UNCHANGED <<storeVars, muxVars, pc, loc, hist, challenge, modalities>>

\* The same body with white space after its first byte.
Respaced(body) == <<body[1], Space>> \o Tail(body)

\* The bodies a request can arrive with: the marshalled payloads, with or
\* without extra white space, an array, a string and nothing.
ReceivedBodies ==
  {Marshal(d) : d \in Payloads} \cup {Respaced(Marshal(d)) : d \in Payloads}
    \cup {<<Punct("[")>>, <<Quoted("t1")>>, <<>>}

\* The request reaches the receiver with another body.
ChangeBody(BodyIn, maxChanges) ==
  /\ sent.n > 0
  /\ sent.changes < maxChanges
  /\ \E b \in BodyIn :
       /\ b /= wire.body
       /\ wire' = [wire EXCEPT !.body = b]
  /\ sent' = [sent EXCEPT !.changes = @ + 1]
  /\ UNCHANGED <<privateKey, publicKeys, publicKey, clock, verdict>>
  /\ UNCHANGED <<storeVars, muxVars, pc, loc, hist, challenge, modalities>>

\* The request reaches the receiver with another token: another algorithm,
\* issue time or digest, under the old signature or signed with a key of the
\* intruder's.
ChangeToken(AlgIn, maxChanges) ==
  /\ sent.n > 0
  /\ sent.changes < maxChanges
  /\ \E alg \in AlgIn, iat \in {wire.token.iat, clock.receiver},
        digest \in {wire.token.request_body_sha256,
                    calculateRequestBodySHA256(Unmarshal(wire.body).v)},
        resign \in BOOLEAN :
       LET content == [alg |-> alg, kid |-> wire.token.kid, iat |-> iat,
                       request_body_sha256 |-> digest]
           token == [alg |-> alg, kid |-> content.kid, iat |-> iat,
                     request_body_sha256 |-> digest,
                     sig |-> IF resign THEN Signed(content, IntruderKey)
                             ELSE wire.token.sig]
       IN /\ token /= wire.token
          /\ wire' = [wire EXCEPT !.token = token]
  /\ sent' = [sent EXCEPT !.changes = @ + 1]
  /\ UNCHANGED <<privateKey, publicKeys, publicKey, clock, verdict>>
  /\ UNCHANGED <<storeVars, muxVars, pc, loc, hist, challenge, modalities>>

\* The request reaches the receiver without its Authorization header.
DropHeader(maxChanges) ==
  /\ sent.n > 0
  /\ sent.changes < maxChanges
  /\ wire.bearer
  /\ wire' = [wire EXCEPT !.bearer = FALSE]
  /\ sent' = [sent EXCEPT !.changes = @ + 1]
  /\ UNCHANGED <<privateKey, publicKeys, publicKey, clock, verdict>>
  /\ UNCHANGED <<storeVars, muxVars, pc, loc, hist, challenge, modalities>>

\* jwt.Parse with the key function of the receiver: a method that is not of
\* type *jwt.SigningMethodRSA is refused, then the signature is verified with
\* the given key. The claims hold no exp and no nbf, and the parser does not
\* look at iat.
jwtParse_AnyMethod(token, key) ==
  IF token.alg = "none" \/ token.sig = Signed(Content(token), key) THEN ""
  ELSE "signature is invalid"

jwtParse(token, key) ==
  IF token.alg \notin SigningMethodRSA THEN "unexpected signing method"
  ELSE IF token.sig /= Signed(Content(token), key) THEN "signature is invalid"
  ELSE ""

\* time.Since(time.Unix(iat, 0)) > 5*time.Minute
Expired(iat, now) == now - iat > FreshnessWindow

\* VerifyToken: signature and age.
VerifyToken(token, key, now) ==
  LET err == jwtParse(token, key)
  IN IF err /= "" THEN err
     ELSE IF Expired(token.iat, now) THEN "token expired"
     ELSE ""

\* VerifyPushNotification: the bearer prefix, signature and age, then the
\* digest of the re-encoded decoded body against the claim.
VerifyPushNotification(req, key, now) ==
  IF ~req.bearer THEN "invalid auth header"
  ELSE LET err == VerifyToken(req.token, key, now)
           requestBody == Unmarshal(req.body).v
           actualDigest == calculateRequestBodySHA256(requestBody)
       IN IF err /= "" THEN err
          ELSE IF actualDigest /= req.token.request_body_sha256 THEN "digest mismatch"
          ELSE ""

\* json.NewDecoder(r.Body).Decode(&notification): the first value of the body
\* must be an object or null.
Decode(body) ==
  LET ts == SelectSeq(body, LAMBDA tok : tok.t /= "space")
      r == ParseValue(ts, 1)
  IN r.ok /\ r.v.go \in {"map", "nil"}

\* handleNotification: the status the listener answers with.
handleNotification(method, req, key, now) ==
  IF method /= "POST" THEN 405
  ELSE IF ~req.bearer THEN 401
  ELSE IF VerifyToken(req.token, key, now) /= "" THEN 401
  ELSE IF ~Decode(req.body) THEN 400
  ELSE 200

Verdict(op, err, status) ==
  [op |-> op, req |-> wire, ok |-> err = "", err |-> err, status |-> status,
   at |-> clock.receiver, key |-> publicKey, signed |-> sent.req,
   data |-> sent.data, signer |-> sent.signer, published |-> Published]

\* The receiver runs VerifyPushNotification on the request that arrived.
Verify ==
  /\ sent.n > 0
  /\ publicKey /= Nil
  /\ verdict' = Verdict("VerifyPushNotification",
                        VerifyPushNotification(wire, publicKey, clock.receiver), 0)
  /\ UNCHANGED <<privateKey, publicKeys, publicKey, clock, wire, sent>>
  /\ UNCHANGED <<storeVars, muxVars, pc, loc, hist, challenge, modalities>>

\* The listener handles the request that arrived.
Listen(MethodIn) ==
  /\ sent.n > 0
  /\ publicKey /= Nil
  /\ \E method \in MethodIn :
       LET status == handleNotification(method, wire, publicKey, clock.receiver)
       IN verdict' = Verdict("handleNotification",
                             IF status = 200 THEN "" ELSE "rejected", status)
  /\ UNCHANGED <<privateKey, publicKeys, publicKey, clock, wire, sent>>
  /\ UNCHANGED <<storeVars, muxVars, pc, loc, hist, challenge, modalities>>

\* ----------------------------------------------------- challenging a URL
\* Per URL, the last call of VerifyPushNotificationURL on it; n numbers the
\* calls over all the URLs.
NoChallenge ==
  [n |-> 0, nonce |-> "", target |-> "none", getErr |-> FALSE, body |-> <<>>,
   received |-> <<>>, readErr |-> FALSE, verified |-> FALSE]

\* The calls of VerifyPushNotificationURL made so far.
Challenges ==
  LET S == {challenge[u].n : u \in PushConfigs}
  IN CHOOSE m \in S : \A x \in S : x <= m

\* handleValidationCheck: the listener echoes the Validation-Token header of a
\* GET request; without the header it answers 400.
handleValidationCheck(req) ==
  IF req.method /= "GET" THEN [status |-> 405, body |-> <<"Method not allowed", "\n">>]
  ELSE IF req.header = "" THEN [status |-> 400, body |-> <<"Validation token not found", "\n">>]
  ELSE [status |-> 200, body |-> <<req.header>>]

\* The bodies a target other than the listener answers a challenge with: the
\* token, the token and more, nothing, the token of the call before.
Echoes(validationToken) ==
  {<<validationToken>>, <<validationToken, "x">>, <<>>}
    \cup (IF Challenges > 0 THEN {<<NewString(Challenges)>>} ELSE {})

\* VerifyPushNotificationURL: GET of the URL with a fresh token as the query
\* parameter validationToken. An error of the GET gives false; otherwise the
\* body as far as it could be read, the read error dropped, is compared with
\* the token.
VerifyPushNotificationURL(UrlIn, TargetIn, maxChallenges) ==
  /\ Challenges < maxChallenges
  /\ \E url \in UrlIn, target \in TargetIn :
       LET validationToken == NewString(Challenges + 1)
           req == [method |-> "GET", query |-> validationToken, header |-> ""]
       IN \E getErr \in IF target = "listener" THEN {FALSE} ELSE BOOLEAN,
             body \in IF target = "listener" THEN {handleValidationCheck(req).body}
                      ELSE Echoes(validationToken) :
            \E read \in IF target = "listener" THEN {Len(body)} ELSE 0..Len(body) :
              LET received == SubSeq(body, 1, read)
              IN challenge' =
                   [challenge EXCEPT ![url] =
                      [n |-> Challenges + 1, nonce |-> validationToken,
                       target |-> target, getErr |-> getErr,
                       body |-> IF getErr THEN <<>> ELSE body,
                       received |-> IF getErr THEN <<>> ELSE received,
                       readErr |-> ~getErr /\ read < Len(body),
                       verified |-> ~getErr /\ received = <<validationToken>>]]
  /\ UNCHANGED <<privateKey, publicKeys, publicKey, clock, wire, sent, verdict>>
  /\ UNCHANGED <<storeVars, muxVars, pc, loc, hist, modalities>>

\* ------------------------------------------------------ output modalities
Modes == {"text", "image", "audio"}
\* The slices of at most n modes, repeated modes included.
RECURSIVE ModeLists(_)
ModeLists(n) ==
  IF n = 0 THEN {<<>>}
  ELSE ModeLists(n - 1) \cup {Append(l, m) : l \in {x \in ModeLists(n - 1) : Len(x) = n - 1}, m \in Modes}

NoModalities == [n |-> 0, server |-> <<>>, client |-> <<>>, compatible |-> FALSE]

\* AreModalitiesCompatible: true when either slice is empty, else whether a
\* client mode is among the server's modes.
AreModalitiesCompatible(serverOutputModes, clientOutputModes) ==
  IF Len(clientOutputModes) = 0 THEN TRUE
  ELSE IF Len(serverOutputModes) = 0 THEN TRUE
  ELSE LET serverModes == {serverOutputModes[i] : i \in 1..Len(serverOutputModes)}
       IN \E i \in 1..Len(clientOutputModes) : clientOutputModes[i] \in serverModes

\* A call of AreModalitiesCompatible on slices of at most maxModes modes.
CheckModalities(maxModes) ==
  /\ \E server \in ModeLists(maxModes), client \in ModeLists(maxModes) :
       modalities' = [n |-> 1, server |-> server, client |-> client,
                      compatible |-> AreModalitiesCompatible(server, client)]
  /\ UNCHANGED <<storeVars, muxVars, pc, loc, hist, privateKey, publicKeys,
                 publicKey, clock, wire, sent, verdict, challenge>>

\* ------------------------------------------------------- the specifications
Init ==
  /\ tasks = <<>>
  /\ pushNotificationInfos = <<>>
  /\ lock = None
  /\ taskSSESubscribers = <<>>
  /\ subscriberLock = None
  /\ heap = <<>>
  /\ chans = <<>>
  /\ pc = [p \in Procs |-> "idle"]
  /\ loc = [p \in Procs |-> NoLoc]
  /\ hist = [storeOps |-> 0, nPub |-> 0, last |-> NoCall,
             published |-> [t \in Tasks |-> <<>>],
             overlap |-> [t \in Tasks |-> FALSE]]
  /\ privateKey = Nil
  /\ publicKeys = <<>>
  /\ publicKey = Nil
  /\ clock = [sender |-> 0, receiver |-> 0, ticks |-> 0]
  /\ wire = NoRequest
  /\ sent = [n |-> 0, data |-> NilMap, req |-> NoRequest, signer |-> Nil, changes |-> 0,
             outcome |-> Delivered, err |-> ""]
  /\ verdict = NoVerdict
  /\ challenge = [u \in PushConfigs |-> NoChallenge]
  /\ modalities = NoModalities

\* upsertTask and updateStore with their inputs drawn from the given sets.
NextWriteOn(TaskIn, SessIn, MsgIn, StatusIn, ArtIn, maxOps, maxCalls) ==
  \E p \in Procs :
    \/ UpsertLock(p, maxOps, maxCalls)
    \/ UpsertBody(p, TaskIn, SessIn, MsgIn)
    \/ UpdateLock(p, maxOps, maxCalls)
    \/ UpdateBody(p, TaskIn, StatusIn, ArtIn)

\* OnGetTask with its inputs drawn from the given sets.
NextReadOn(TaskIn, LenIn) ==
  \E p \in Procs :
    \/ GetLock(p)
    \/ GetLookup(p, TaskIn)
    \/ GetCopy(p, LenIn)

NextStore ==
  \/ NextWriteOn(Tasks, Sessions, Msgs, StatusInputs, ArtifactInputs, MaxStoreOps, AllCalls)
  \/ NextReadOn(Tasks, HistoryLengths)

\* upsertTask and updateStore running statement by statement.
NextStepsOn(TaskIn, SessIn, MsgIn, StatusIn, ArtIn, maxOps, maxCalls) ==
  \E p \in Procs :
    \/ UpsertLock(p, maxOps, maxCalls)
    \/ UpsertFind(p, TaskIn, SessIn, MsgIn)
    \/ UpsertStore(p)
    \/ UpdateLock(p, maxOps, maxCalls)
    \/ UpdateFind(p, TaskIn, StatusIn, ArtIn)
    \/ UpdateSetStatus(p)
    \/ UpdateAppendHistory(p)
    \/ UpdateAppendArtifacts(p)

\* OnCancelTask with its input drawn from the given set.
NextCancelOn(TaskIn) ==
  \E p \in Procs :
    \/ CancelLock(p)
    \/ CancelLookup(p, TaskIn)

\* The push notification functions with their inputs drawn from the given sets.
NextPushOn(TaskIn, ConfigIn) ==
  \E p \in Procs :
    \/ SetPushLock(p)
    \/ SetPushBody(p, TaskIn, ConfigIn)
    \/ GetPushLock(p)
    \/ GetPushBody(p, TaskIn)
    \/ HasPushLock(p)
    \/ HasPushBody(p, TaskIn)

\* The registry's operations with their inputs drawn from the given sets.
NextMuxOn(TaskIn, KindIn, ReqIn, maxSubs, maxPub, maxCalls) ==
  \/ \E p \in Procs :
       \/ SetupLock(p, maxSubs, maxCalls)
       \/ SetupBody(p, TaskIn)
       \/ EnqLock(p, maxPub, maxCalls)
       \/ EnqSnapshot(p, TaskIn, KindIn)
       \/ EnqRead(p)
       \/ \E c \in Chans : Handoff(p, c)
  \/ \E c \in Chans :
       \/ StartDequeue(c, ReqIn)
       \/ Forward(c)
       \/ CleanupLock(c)
       \/ CleanupRemove(c)
       \/ Close(c)

NextMux == NextMuxOn(Tasks, EventKinds, ReqIds, MaxSubs, MaxPub, AllCalls)

NextSteps ==
  NextStepsOn(Tasks, Sessions, Msgs, StatusInputs, ArtifactInputs, MaxStoreOps,
              AllCalls)

\* The sender's key generation and the receiver's key loading.
NextKeysOn(PemIn, maxKeys) ==
  \/ GenerateRSAKey(maxKeys)
  \/ LoadJWKS(PemIn)

\* Sending, with the clocks of the two hosts moving on.
NextSendOn(DataIn, OutcomeIn, maxSends, maxTicks) ==
  \/ SendPushNotification(DataIn, OutcomeIn, maxSends)
  \/ \E h \in {"sender", "receiver"} : Tick(h, maxTicks)

\* What can happen to a request between the sender and the receiver.
NextChangeOn(BodyIn, AlgIn, maxChanges) ==
  \/ ChangeBody(BodyIn, maxChanges)
  \/ ChangeToken(AlgIn, maxChanges)
  \/ DropHeader(maxChanges)

\* The receiver's verification and the listener's handler.
NextReceiveOn(MethodIn) ==
  \/ Verify
  \/ Listen(MethodIn)

NextAuth ==
  \/ NextKeysOn(PemInputs, MaxKeys)
  \/ NextSendOn(Payloads, Outcomes, MaxSends, MaxTicks)
  \/ NextChangeOn(ReceivedBodies, Algs, MaxChanges)
  \/ NextReceiveOn({"POST", "GET"})
  \/ VerifyPushNotificationURL(PushConfigs, {"listener", "other"}, MaxChallenges)

Next ==
  \/ NextStore
  \/ NextSteps
  \/ NextCancelOn(Tasks)
  \/ NextPushOn(Tasks, PushConfigs)
  \/ NextMux
  \/ NextAuth
  \/ CheckModalities(MaxModes)

Spec == Init /\ [][Next]_vars

\* The store under every input.
SpecStore == Init /\ [][NextStore]_vars

\* The store's two writers alone.
SpecWrites ==
  Init /\ [][NextWriteOn(Tasks, Sessions, Msgs, StatusInputs, ArtifactInputs, MaxStoreOps, AllCalls)]_vars

\* The registry under every input.
SpecMux == Init /\ [][NextMux]_vars

\* The registry fed status updates, final or not, on two tasks.
SpecStatus ==
  Init /\ [][NextMuxOn(Tasks, {"status", "final"}, {"r1"}, MaxSubs, MaxPub,
                      AllCalls)]_vars

\* One subscriber stream's life on one task: status updates, final or not,
\* within StreamMaxCalls registrations and publishes in all.
NextStream ==
  NextMuxOn({"t1"}, {"status", "final"}, {"r1"}, MaxSubs, StreamMaxCalls,
            StreamMaxCalls)

SpecStream == Init /\ [][NextStream]_vars

\* The scheduling of a subscriber stream's life: a caller that has begun a
\* call goes on with it, a started goroutine goes on, the reader of every
\* stream keeps reading, and every queue gets its goroutine.
FairStream ==
  /\ \A p \in Procs :
       /\ WF_vars(SetupBody(p, {"t1"}))
       /\ WF_vars(EnqSnapshot(p, {"t1"}, {"status", "final"}))
       /\ WF_vars(EnqRead(p))
       /\ \A c \in Chans : SF_vars(Handoff(p, c))
  /\ \A c \in Chans :
       /\ WF_vars(StartDequeue(c, {"r1"}))
       /\ WF_vars(Forward(c))
       /\ SF_vars(CleanupLock(c))
       /\ WF_vars(CleanupRemove(c))
       /\ WF_vars(Close(c))

SpecStreamFair == SpecStream /\ FairStream

\* Subscribing and resubscribing on two tasks whose streams end, within
\* StreamMaxCalls registrations and publishes in all.
NextResub ==
  NextMuxOn(Tasks, {"final"}, {"r1"}, MaxSubs, StreamMaxCalls, StreamMaxCalls)

SpecResub == Init /\ [][NextResub]_vars

\* Streams of one task under two correlation identifiers, fed status updates
\* and errors, within CorrMaxCalls registrations and publishes in all.
NextCorr ==
  NextMuxOn({"t1"}, {"status", "error"}, ReqIds, MaxSubs, CorrMaxCalls,
            CorrMaxCalls)

SpecCorr == Init /\ [][NextCorr]_vars

\* Streams of one task fed status updates, final or not, and errors, within
\* CorrMaxCalls registrations and publishes in all.
NextError ==
  NextMuxOn({"t1"}, {"status", "final", "error"}, ReqIds, MaxSubs, CorrMaxCalls,
            CorrMaxCalls)

SpecError == Init /\ [][NextError]_vars

\* The store's calls and the registry's calls side by side on one task, within
\* LocksMaxCalls calls in all.
NextLocks ==
  \/ NextWriteOn({"t1"}, {"s1"}, {"m1"},
                 [State : {TaskWorking}, Message : {NoMsg}], {NilArts},
                 LocksMaxCalls, LocksMaxCalls)
  \/ NextReadOn({"t1"}, {None})
  \/ NextMuxOn({"t1"}, {"final"}, {"r1"}, MaxSubs, LocksMaxCalls, LocksMaxCalls)

SpecLocks == Init /\ [][NextLocks]_vars

\* Every operation of the task manager, the store's writers on two tasks and
\* the others on one, within OpsMaxCalls store writes, registrations and
\* publishes in all.
NextOps ==
  \/ NextWriteOn(Tasks, {"s1"}, {"m1"},
                 [State : {TaskWorking}, Message : {"m2", NoMsg}], {NilArts},
                 OpsMaxCalls, OpsMaxCalls)
  \/ NextReadOn({"t1"}, {1})
  \/ NextCancelOn({"t1"})
  \/ NextPushOn({"t1"}, {"u1"})
  \/ NextMuxOn({"t1"}, {"final"}, {"r1"}, MaxSubs, OpsMaxCalls, OpsMaxCalls)

SpecOps == Init /\ [][NextOps]_vars

\* The store's writers beside OnGetTask under every history length.
NextGet ==
  \/ NextWriteOn(Tasks, {"s1"}, Msgs,
                 [State : {TaskWorking, TaskCompleted}, Message : Msgs \cup {NoMsg}],
                 ArtifactInputs, MaxStoreOps, AllCalls)
  \/ NextReadOn(Tasks, HistoryLengths)

SpecGet == Init /\ [][NextGet]_vars

\* The push notification registrations of two tasks beside the calls that
\* create the tasks.
NextPush ==
  \/ NextWriteOn(Tasks, {"s1"}, {"m1"},
                 [State : {TaskWorking}, Message : {NoMsg}], {NilArts},
                 MaxStoreOps, AllCalls)
  \/ NextPushOn(Tasks, PushConfigs)

SpecPush == Init /\ [][NextPush]_vars

\* The store's writers running statement by statement beside OnGetTask.
NextRace ==
  \/ NextStepsOn(Tasks, {"s1"}, Msgs,
                 [State : {TaskWorking, TaskCompleted}, Message : Msgs \cup {NoMsg}],
                 {NilArts, <<"a1">>}, MaxStoreOps, AllCalls)
  \/ NextReadOn(Tasks, {None, 2})

SpecRace == Init /\ [][NextRace]_vars

\* Key generation and loading, sending and verification, with the clocks moving.
NextSign ==
  \/ NextKeysOn(PemInputs, MaxKeys)
  \/ NextSendOn(Payloads, {Delivered}, MaxSends, MaxTicks)
  \/ Verify
SpecSign == Init /\ [][NextSign]_vars

\* Requests whose body is changed on their way to the verifier and to the
\* listener.
NextReceive ==
  \/ NextKeysOn(PemInputs, MaxKeys)
  \/ SendPushNotification(PlainPayloads \cup {NilMap}, {Delivered}, MaxSends)
  \/ ChangeBody(ReceivedBodies, MaxChanges)
  \/ NextReceiveOn({"POST", "GET"})
SpecReceive == Init /\ [][NextReceive]_vars

\* One request whose token is changed, or whose header is dropped, on its way
\* to the verifier.
NextForge ==
  \/ NextKeysOn(PemInputs, ForgeMaxKeys)
  \/ NextSendOn({GoMap([id |-> GoString("t1")])}, {Delivered}, ForgeMaxSends, ForgeMaxTicks)
  \/ ChangeToken(Algs, MaxChanges)
  \/ DropHeader(MaxChanges)
  \/ Verify
SpecForge == Init /\ [][NextForge]_vars


\* The sender challenging URLs: the listener of this repository and others.
NextChallenge == VerifyPushNotificationURL(PushConfigs, {"listener", "other"}, MaxChallenges)
SpecChallenge == Init /\ [][NextChallenge]_vars

\* Calls of AreModalitiesCompatible on every pair of short slices.
NextModalities == CheckModalities(MaxModes)
SpecModalities == Init /\ [][NextModalities]_vars

\* Sending to targets that answer with any status or not at all.
NextDeliver ==
  \/ NextKeysOn(PemInputs, MaxKeys)
  \/ NextSendOn(PlainPayloads, Outcomes, DeliverMaxSends, MaxTicks)
SpecDeliver == Init /\ [][NextDeliver]_vars

\* ------------------------------------------------------------------ claims
Terminal == {TaskCompleted, TaskCanceled, TaskFailed}

\* The lifecycle graph of the specification.
Lifecycle ==
  {<<TaskSubmitted, TaskWorking>>, <<TaskWorking, TaskInputNeeded>>,
   <<TaskInputNeeded, TaskWorking>>}
  \cup ({TaskWorking, TaskInputNeeded} \X Terminal)

Created == 1..Len(chans)

UpToFirstFinal(s) ==
  IF \E i \in 1..Len(s) : s[i].kind = "final"
  THEN SubSeq(s, 1, CHOOSE i \in 1..Len(s) :
                      /\ s[i].kind = "final"
                      /\ \A j \in 1..(i - 1) : s[j].kind /= "final")
  ELSE s

\* What subscriber c is owed: the events published to its task since it
\* registered, up to and including the first final one.
Expected(c) ==
  LET all == hist.published[chans[c].task]
  IN UpToFirstFinal(SubSeq(all, chans[c].from + 1, Len(all)))

\* The events subscriber c's output stream has yielded.
OutEvents(c) == [i \in 1..Len(chans[c].out) |-> chans[c].out[i].ev]

NoDuplicates(s) == Cardinality(Range(s)) = Len(s)

\* C1: when the Publish calls on a task do not overlap, every subscriber of the
\* task is handed, and its stream yields, the events published since it
\* registered in their order, none missing, doubled or out of place, up to
\* the first final one; once no Publish is running none is outstanding.
C1_SequentialOrder ==
  \A c \in Created :
    ~hist.overlap[chans[c].task] =>
      /\ IsPrefix(chans[c].recv, Expected(c))
      /\ IsPrefix(OutEvents(c), chans[c].recv)
      /\ (\A p \in Procs : ~(Publishing(p) /\ loc[p].task = chans[c].task))
           => chans[c].recv = Expected(c)

\* C2: two subscribers of one task never receive two events in opposite
\* orders, also when Publish calls overlap.
C2_SameOrder ==
  \A c1 \in Created, c2 \in Created :
    chans[c1].task = chans[c2].task =>
      \A i \in 1..Len(chans[c1].recv), j \in 1..Len(chans[c1].recv) :
        i < j =>
          ~\E k \in 1..Len(chans[c2].recv), l \in 1..Len(chans[c2].recv) :
             /\ k < l
             /\ chans[c2].recv[k] = chans[c1].recv[j]
             /\ chans[c2].recv[l] = chans[c1].recv[i]

\* C3: a Publish call offers its event only to subscribers registered when it
\* read the registry, to none of them twice, and when it returns it has handed
\* the event to each of them that had not received a final event before.
C3_ExactlyOnce ==
  /\ \A p \in Procs :
       Publishing(p) =>
         /\ Range(loc[p].handed) \subseteq loc[p].snapSet
         /\ NoDuplicates(loc[p].handed)
         /\ pc[p] = "enq_send" =>
              loc[p].target \in loc[p].snapSet \ Range(loc[p].handed)
  /\ hist.last.op = "enqueue" =>
       /\ hist.last.snapLive \subseteq Range(hist.last.handed)
       /\ NoDuplicates(hist.last.handed)

\* C4: a subscriber that has been handed a final status update is out of the
\* registry for every Publish call that starts afterwards; the goroutine's
\* removal removes its own queue and no other.
C4_RemovedAtFinal ==
  /\ \A p \in Procs : Publishing(p) => loc[p].snapDead = {}
  /\ \A c \in Created :
       /\ chans[c].pc \in {"closing", "done"} => c \notin Registered(chans[c].task)
       /\ chans[c].pc \in {"created", "recv", "fwd", "cleanup", "locked"}
            => c \in Registered(chans[c].task)

HasFinal(s) == \E i \in 1..Len(s) : s[i].kind = "final"

\* Subscriber c is the only one its task ever had, it registered before any
\* event was published, and the task was published a non-final and then a
\* final status update by calls that did not overlap.
TwoEventScenario(c) ==
  LET t == chans[c].task
  IN /\ \A d \in Created : chans[d].task = t => d = c
     /\ chans[c].from = 0
     /\ ~hist.overlap[t]
     /\ Len(hist.published[t]) = 2
     /\ hist.published[t][1].kind = "status"
     /\ hist.published[t][2].kind = "final"

\* C5: a stream yields nothing after a final status update; the goroutine that
\* has yielded one only unregisters and closes the stream, and nothing keeps it
\* from doing so; a closed stream belongs to a finished goroutine. In the
\* two-event scenario the stream yields the two events in order and is closed
\* with exactly these two.
C5_FinalEndsStream ==
  \A c \in Created :
    /\ \A i \in 1..Len(chans[c].out) :
         chans[c].out[i].ev.kind = "final" => i = Len(chans[c].out)
    /\ HasFinal(OutEvents(c)) =>
         chans[c].pc \in {"cleanup", "locked", "closing", "done"}
    /\ chans[c].pc = "locked" => ENABLED CleanupRemove(c)
    /\ chans[c].pc = "closing" => ENABLED Close(c)
    /\ chans[c].closed <=> chans[c].pc = "done"
    /\ TwoEventScenario(c) =>
         /\ IsPrefix(OutEvents(c), hist.published[chans[c].task])
         /\ chans[c].closed => OutEvents(c) = hist.published[chans[c].task]

C5_Witness ==
  \E c \in Created :
    /\ TwoEventScenario(c)
    /\ chans[c].closed
    /\ Len(chans[c].out) = 2

\* Subscriber a is slow: its goroutine holds an event that the reader of its
\* stream has not taken, so it is not receiving from its queue.
Slow(a) == chans[a].pc = "fwd"

\* C6: a Publish call is never stuck on a slow subscriber while another
\* subscriber that it still owes the event is ready to receive.
C6_NoDelay ==
  \A p \in Procs :
    (pc[p] = "enq_send" /\ Slow(loc[p].target)) =>
      \A b \in (loc[p].snapSet \ Range(loc[p].handed)) \ {loc[p].target} :
        chans[b].pc /= "recv"

\* The holder of tm.lock can run to its Unlock.
LockHolderRuns ==
  \A p \in Procs :
    lock = p =>
      \/ ENABLED UpsertBody(p, Tasks, Sessions, Msgs)
      \/ ENABLED UpdateBody(p, Tasks, StatusInputs, ArtifactInputs)
      \/ ENABLED GetLookup(p, Tasks)

\* The holder of tm.subscriberLock can run to its Unlock.
SubscriberLockHolderRuns ==
  /\ \A p \in Procs :
       subscriberLock = p =>
         \/ ENABLED SetupBody(p, Tasks)
         \/ ENABLED EnqSnapshot(p, Tasks, EventKinds)
  /\ \A c \in Created :
       subscriberLock = GoId(c) => ENABLED CleanupRemove(c)

\* C7: a caller inside the loop of enqueueEventsForSSE holds neither lock, no
\* caller or goroutine holds both, and whoever holds a lock can run to its
\* Unlock whatever the publishers are blocked on, so that each lock comes free.
C7_LocksDisjoint ==
  /\ \A p \in Procs : Publishing(p) => lock /= p /\ subscriberLock /= p
  /\ \A p \in Procs : ~(lock = p /\ subscriberLock = p)
  /\ lock \in Procs \cup {None}
  /\ LockHolderRuns
  /\ SubscriberLockHolderRuns

\* A Publish call is blocked on a subscriber that is not receiving; a Subscribe
\* on the same task has completed since it read the registry, a store write has
\* completed, and another caller is inside the store.
C7_Witness ==
  \E p \in Procs, q \in Procs :
    /\ pc[p] = "enq_send"
    /\ chans[loc[p].target].pc /= "recv"
    /\ \E c \in Created :
         /\ chans[c].task = loc[p].task
         /\ c \notin loc[p].snapSet
    /\ hist.storeOps >= 1
    /\ lock = q
    /\ pc[q] \in {"upsert", "update", "get"}

\* A call of op on task t completes in this step.
Completes(op, t) ==
  /\ hist'.last /= hist.last \/ hist'.storeOps /= hist.storeOps
  /\ hist'.last.op = op
  /\ hist'.last.id = t

\* C8: once a stored task is completed, canceled or failed its state never
\* changes, and an UpdateStatus on it fails.
C8_TerminalAbsorbing ==
  [][\A t \in DOMAIN tasks :
       tasks[t].Status.State \in Terminal =>
         /\ tasks'[t].Status.State = tasks[t].Status.State
         /\ Completes("update", t) => ~hist'.last.ok]_vars

\* C9: a stored task leaves a non-terminal state only along the lifecycle graph.
C9_LifecycleGraph ==
  [][\A t \in DOMAIN tasks :
       (/\ tasks[t].Status.State \notin Terminal
        /\ tasks'[t].Status.State /= tasks[t].Status.State)
         => <<tasks[t].Status.State, tasks'[t].Status.State>> \in Lifecycle]_vars

\* C10: CreateOrAppend on an unknown identifier stores a task in state submitted
\* whose history is the message alone; on a known identifier it appends the
\* message to the history and leaves status, artifacts and session as they
\* were; either way it returns the stored task and touches no other task.
C10_CreateOnce ==
  [][\A t \in Tasks :
       Completes("upsert", t) =>
         /\ DOMAIN tasks' = DOMAIN tasks \cup {t}
         /\ \A u \in DOMAIN tasks : u /= t => tasks'[u] = tasks[u]
         /\ hist'.last.ok /\ hist'.last.result = tasks'[t]
         /\ IF t \notin DOMAIN tasks
            THEN /\ tasks'[t].ID = t
                 /\ tasks'[t].SessionID = hist'.last.session
                 /\ tasks'[t].Status.State = TaskSubmitted
                 /\ tasks'[t].History = <<hist'.last.message>>
                 /\ tasks'[t].Artifacts = NilArts
            ELSE /\ tasks'[t].History = Append(tasks[t].History, hist'.last.message)
                 /\ tasks'[t].Status = tasks[t].Status
                 /\ tasks'[t].Artifacts = tasks[t].Artifacts
                 /\ tasks'[t].SessionID = tasks[t].SessionID
                 /\ tasks'[t].ID = tasks[t].ID]_vars

\* CreateOrAppend has just appended to a task that an update had completed,
\* under another session than the one it was created with.
C10_Witness ==
  /\ hist.last.op = "upsert"
  /\ hist.last.id \in DOMAIN tasks
  /\ tasks[hist.last.id].Status.State = TaskCompleted
  /\ Len(tasks[hist.last.id].History) >= 2
  /\ tasks[hist.last.id].SessionID /= hist.last.session

\* Caller p is between the Lock and the Unlock of upsertTask or updateStore.
Writing(p) ==
  pc[p] \in {"upsert", "upsert_store", "update", "update_status",
             "update_history", "update_artifacts"}

\* Caller p runs the if/else of upsertTask in this step.
StoresUpsert(p) == pc[p] = "upsert_store" /\ pc'[p] = "idle"

\* Caller p runs the history statement of updateStore in this step.
StoresHistory(p) == pc[p] = "update_history" /\ pc'[p] = "update_artifacts"

\* C11: upsertTask and updateStore are serialized. At most one caller is
\* inside either; a CreateOrAppend that ends creates the task (history its
\* message alone, state submitted) exactly when no task is stored under the
\* identifier and otherwise adds its message at the end of the history as it
\* is stored then; an UpdateStatus adds its message, if any, the same way; and
\* nothing else changes a stored history, so no entry is lost or overwritten.
C11_Atomic ==
  [][/\ \A p \in Procs, q \in Procs : Writing(p)' /\ Writing(q)' => p = q
     /\ DOMAIN tasks \subseteq DOMAIN tasks'
     /\ \A p \in Procs :
          StoresUpsert(p) =>
            LET c == loc[p].call
            IN /\ DOMAIN tasks' = DOMAIN tasks \cup {c.id}
               /\ IF c.id \in DOMAIN tasks
                  THEN tasks'[c.id].History = Append(tasks[c.id].History, c.message)
                  ELSE /\ tasks'[c.id].History = <<c.message>>
                       /\ tasks'[c.id].Status.State = TaskSubmitted
     /\ \A p \in Procs :
          (StoresHistory(p) /\ loc[p].call.status.Message /= NoMsg) =>
            tasks'[loc[p].call.id].History =
              Append(tasks[loc[p].call.id].History, loc[p].call.status.Message)
     /\ \A t \in DOMAIN tasks :
          tasks'[t].History /= tasks[t].History =>
            \E p \in Procs :
              /\ loc[p].call.id = t
              /\ StoresUpsert(p) \/ StoresHistory(p)]_vars

\* Two calls of CreateOrAppend with different messages on an identifier that
\* was unknown have ended and nothing else has run: one task, both messages.
C11_Witness ==
  \E t \in DOMAIN tasks :
    /\ hist.storeOps = 2
    /\ hist.last.op = "upsert" /\ hist.last.id = t
    /\ Len(tasks[t].History) = 2
    /\ tasks[t].History[1] /= tasks[t].History[2]
    /\ tasks[t].Status.State = TaskSubmitted

\* A list of artifacts as a sequence (a nil list has no elements).
Elems(artifacts) == IF artifacts = NilArts THEN <<>> ELSE artifacts

\* C12: an UpdateStatus that ends on a stored task has made the stored status
\* the one passed, put the status message, when there is one, at the end of the
\* history and otherwise left the history alone, and put the new artifacts
\* after the stored ones, which all stay in place; it returns the stored task
\* and changes nothing else.
C12_UpdateReplaces ==
  [][\A t \in DOMAIN tasks :
       Completes("update", t) =>
         LET c == hist'.last
         IN /\ c.ok /\ c.result = tasks'[t]
            /\ DOMAIN tasks' = DOMAIN tasks
            /\ \A u \in DOMAIN tasks : u /= t => tasks'[u] = tasks[u]
            /\ tasks'[t].Status = c.status
            /\ tasks'[t].History =
                 IF c.status.Message /= NoMsg
                 THEN tasks[t].History \o <<c.status.Message>>
                 ELSE tasks[t].History
            /\ Elems(tasks'[t].Artifacts) =
                 Elems(tasks[t].Artifacts) \o Elems(c.artifacts)
            /\ tasks'[t].ID = tasks[t].ID
            /\ tasks'[t].SessionID = tasks[t].SessionID]_vars

\* CreateOrAppend(t1, s1, m1), UpdateStatus(t1, {working}, []), Get(t1, 10):
\* the Get has returned history [m1] and state working.
C12_Witness ==
  /\ hist.storeOps = 2
  /\ hist.last.op = "get" /\ hist.last.id = "t1" /\ hist.last.historyLength = 10
  /\ hist.last.ok
  /\ hist.last.result.History = <<"m1">>
  /\ hist.last.result.Status = [State |-> TaskWorking, Message |-> NoMsg]
  /\ hist.last.result.Artifacts = <<>>
  /\ hist.last.result.SessionID = "s1"

\* C13: an UpdateStatus that ends on an identifier with no stored task
\* reports the failure, returns no task and leaves the stored tasks, the push
\* notification registrations and the subscriber registry as they were.
C13_UpdateNotFound ==
  [][\A t \in Tasks :
       (Completes("update", t) /\ t \notin DOMAIN tasks) =>
         /\ ~hist'.last.ok
         /\ hist'.last.result = NoTask
         /\ tasks' = tasks
         /\ pushNotificationInfos' = pushNotificationInfos
         /\ taskSSESubscribers' = taskSSESubscribers
         /\ heap' = heap
         /\ chans' = chans]_vars

\* An UpdateStatus on an unknown identifier has just failed while a task, a
\* push notification registration and a subscriber are stored.
C13_Witness ==
  /\ hist.last.op = "update"
  /\ ~hist.last.ok
  /\ hist.last.id \notin DOMAIN tasks
  /\ DOMAIN tasks /= {}
  /\ DOMAIN pushNotificationInfos /= {}
  /\ \E t \in DOMAIN taskSSESubscribers : taskSSESubscribers[t].len > 0

\* Caller p runs appendTaskHistory and returns from OnGetTask in this step.
Copies(p) == pc[p] = "get_copy" /\ pc'[p] = "idle"

\* C14: the task a Get returns has, for a positive limit N, the last
\* min(N, len) entries of the stored history in their stored order, and for an
\* omitted or non-positive limit an empty history; its status and artifacts
\* are the stored ones.
C14_GetTrims ==
  [][\A p \in Procs :
       Copies(p) =>
         LET stored == tasks[loc[p].task]
             got == hist'.last.result
             n == hist'.last.historyLength
             len == Len(stored.History)
             k == IF n < len THEN n ELSE len
         IN /\ hist'.last.op = "get" /\ hist'.last.ok
            /\ hist'.last.id = loc[p].task
            /\ IF n > 0
               THEN /\ Len(got.History) = k
                    /\ \A i \in 1..k : got.History[i] = stored.History[len - k + i]
               ELSE got.History = <<>>
            /\ got.Status = stored.Status
            /\ got.Artifacts = stored.Artifacts
            /\ got.ID = stored.ID]_vars

\* A Get with limit 2 has just returned the last two of three stored entries,
\* which are not the first two.
C14_Witness ==
  /\ hist.last.op = "get" /\ hist.last.ok
  /\ hist.last.historyLength = 2
  /\ hist.last.id \in DOMAIN tasks
  /\ Len(tasks[hist.last.id].History) = 3
  /\ hist.last.result.History = SubSeq(tasks[hist.last.id].History, 2, 3)
  /\ hist.last.result.History /= SubSeq(tasks[hist.last.id].History, 1, 2)

\* Caller p takes a step of OnGetTask.
Gets(p) ==
  /\ pc'[p] /= pc[p]
  /\ pc[p] \in {"get", "get_copy"} \/ pc'[p] \in {"get", "get_copy"}

\* C15: no step of OnGetTask, for a known or an unknown identifier and any
\* limit, changes the stored tasks, the push notification registrations or the
\* subscriber registry.
C15_GetReadOnly ==
  [][\A p \in Procs :
       Gets(p) =>
         /\ tasks' = tasks
         /\ pushNotificationInfos' = pushNotificationInfos
         /\ taskSSESubscribers' = taskSSESubscribers
         /\ heap' = heap
         /\ chans' = chans]_vars

\* A Get has just returned a history shorter than the stored one, while a push
\* notification registration and a subscriber are stored.
C15_Witness ==
  /\ hist.last.op = "get" /\ hist.last.ok
  /\ hist.last.id \in DOMAIN tasks
  /\ Len(hist.last.result.History) < Len(tasks[hist.last.id].History)
  /\ DOMAIN pushNotificationInfos /= {}
  /\ \E t \in DOMAIN taskSSESubscribers : taskSSESubscribers[t].len > 0

\* C16: a Get returns a task only for an identifier that has a stored task,
\* and stored tasks are never removed; for any other identifier it returns the
\* empty result, whatever has been done to other identifiers.
C16_GetUnknown ==
  [][/\ DOMAIN tasks \subseteq DOMAIN tasks'
     /\ \A p \in Procs :
          /\ (pc[p] = "get" /\ pc'[p] = "idle") =>
               /\ hist'.last.op = "get"
               /\ hist'.last.id \notin DOMAIN tasks
               /\ ~hist'.last.ok
               /\ hist'.last.result = NoTask
          /\ (pc[p] = "get" /\ pc'[p] = "get_copy") =>
               loc'[p].task \in DOMAIN tasks
          /\ Copies(p) =>
               /\ hist'.last.id \in DOMAIN tasks
               /\ hist'.last.result.ID = hist'.last.id]_vars

\* A Get on an identifier never created has just returned the empty result
\* after a task was stored and updated under another identifier.
C16_Witness ==
  /\ hist.last.op = "get"
  /\ ~hist.last.ok
  /\ hist.last.result = NoTask
  /\ hist.last.id \notin DOMAIN tasks
  /\ \E u \in DOMAIN tasks : Len(tasks[u].History) >= 2

\* C17: the task a Get returns is the copy of one stored state: when an
\* UpdateStatus on the same task is between its Lock and its Unlock, the copy
\* is that of the task as stored before the update or as stored after it.
C17_ConsistentCopy ==
  [][\A p \in Procs :
       Copies(p) =>
         \A q \in Procs :
           (/\ pc[q] \in {"update_status", "update_history", "update_artifacts"}
            /\ loc[q].call.id = loc[p].task) =>
             LET before == loc[q].call.result
                 after == updateTask(before, loc[q].call.status,
                                     loc[q].call.artifacts)
                 n == hist'.last.historyLength
             IN hist'.last.result \in
                  {appendTaskHistory(before, n), appendTaskHistory(after, n)}]_vars

\* C18: in every step of every operation each stored task stays stored and
\* its history before the step is a prefix of its history after it.
C18_AppendOnly ==
  [][\A t \in DOMAIN tasks :
       /\ t \in DOMAIN tasks'
       /\ IsPrefix(tasks[t].History, tasks'[t].History)]_vars

\* A Cancel has just returned on a task whose history CreateOrAppend and
\* UpdateStatus have grown to three entries and that has a push notification
\* registration.
C18_Witness ==
  /\ hist.last.op = "cancel" /\ hist.last.ok
  /\ hist.last.id \in DOMAIN pushNotificationInfos
  /\ Len(tasks[hist.last.id].History) = 3
  /\ \E i \in 1..3 : tasks[hist.last.id].History[i] = "m1"
  /\ \E i \in 1..3 : tasks[hist.last.id].History[i] = "m2"

\* C19: no stored task is in state unknown.
C19_NoUnknown ==
  \A t \in DOMAIN tasks : tasks[t].Status.State /= TaskUnknown

\* C20: a Cancel that ends on a stored task in a non-terminal state has made
\* it canceled and returns it; on a task in a terminal state it fails and
\* changes nothing; on an unknown identifier it returns the empty result.
C20_Cancel ==
  [][\A t \in Tasks :
       Completes("cancel", t) =>
         IF t \notin DOMAIN tasks
         THEN ~hist'.last.ok /\ tasks' = tasks
         ELSE IF tasks[t].Status.State \in Terminal
              THEN ~hist'.last.ok /\ tasks' = tasks
              ELSE /\ tasks'[t].Status.State = TaskCanceled
                   /\ hist'.last.result = tasks'[t]]_vars

\* Caller p returns from setupSSEConsumer in this step, called to resubscribe.
Resubscribes(p) ==
  /\ pc[p] = "setup" /\ pc'[p] = "idle"
  /\ hist'.last.isResubscribe

\* C21: a Subscribe to resubscribe on a task the registry has no entry for
\* fails, returns no queue and leaves the registry as it was: no entry and no
\* queue is made.
C21_ResubscribeNotFound ==
  [][\A p \in Procs :
       (Resubscribes(p) /\ hist'.last.id \notin DOMAIN taskSSESubscribers) =>
         /\ ~hist'.last.ok
         /\ hist'.last.chan = NoChan
         /\ taskSSESubscribers' = taskSSESubscribers
         /\ heap' = heap
         /\ chans' = chans]_vars

\* A resubscription on t2 has just failed while t1 has a subscriber and the
\* registry has no entry for t2.
C21_Witness ==
  /\ hist.last.op = "setup" /\ hist.last.isResubscribe
  /\ hist.last.id = "t2"
  /\ ~hist.last.ok
  /\ "t2" \notin DOMAIN taskSSESubscribers
  /\ Registered("t1") /= {}

\* C22: a Subscribe to resubscribe on a task that has no subscriber left,
\* each one registered before having been removed after its final event,
\* fails and registers nothing.
C22_NoLiveStream ==
  [][\A p \in Procs, t \in Tasks :
       (/\ Resubscribes(p)
        /\ hist'.last.id = t
        /\ Registered(t) = {}
        /\ \E c \in Created : chans[c].task = t
        /\ \A c \in Created : chans[c].task = t => GotFinal(c)) =>
         /\ ~hist'.last.ok
         /\ chans' = chans
         /\ Registered(t)' = {}]_vars

\* C23: every response on a subscriber's stream carries the correlation
\* identifier its goroutine was started with, be it an event or an error, and
\* that identifier never changes once the goroutine runs.
C23_CorrelationId ==
  [][/\ \A c \in Created :
          chans[c].pc /= "created" => chans'[c].req = chans[c].req
     /\ \A c \in 1..Len(chans') :
          \A i \in 1..Len(chans'[c].out) :
            /\ chans'[c].out[i].ID = chans'[c].req
            /\ chans'[c].out[i].ID \in ReqIds
            /\ chans'[c].out[i].ev = chans'[c].recv[i]]_vars

\* Two subscribers of one task started under different identifiers have both
\* been sent responses, one of them an error.
C23_Witness ==
  \E c \in Created, d \in Created :
    /\ chans[c].task = chans[d].task
    /\ chans[c].req /= chans[d].req
    /\ Len(chans[c].out) >= 1 /\ Len(chans[d].out) >= 1
    /\ chans[c].out[1].ID /= chans[d].out[1].ID
    /\ \E i \in 1..Len(chans[c].out) : chans[c].out[i].field = "Error"

\* Every caller has returned.
Quiescent == \A p \in Procs : pc[p] = "idle"

\* C24: no successful UpdateStatus goes unpublished: once every caller has
\* returned and the last call to complete was a successful UpdateStatus on a
\* task, an event has been published to the multiplexer for that task.
C24_UpdatePublished ==
  \A t \in Tasks :
    (Quiescent /\ hist.last.op = "update" /\ hist.last.ok /\ hist.last.id = t) =>
      hist.published[t] /= <<>>

\* The received body has the digest the token claims, as the verifier
\* computes it.
DigestMatches(req) ==
  calculateRequestBodySHA256(Unmarshal(req.body).v) = req.token.request_body_sha256

\* The token was not signed, as it stands, with the private half of the key.
NotSignedBy(token, key) == token.sig.key /= key \/ token.sig.over /= Content(token)

Verified == verdict.op = "VerifyPushNotification"

Unmodified == verdict.req = verdict.signed

\* The verifier's key is the public half of the key the request was signed with.
TrustsSigner == verdict.key = verdict.signer

\* The token's issue time is not after the verification and at most the
\* freshness window before it.
InWindow ==
  /\ verdict.at - verdict.req.token.iat >= 0
  /\ verdict.at - verdict.req.token.iat <= FreshnessWindow

\* The token's issue time is more than the freshness window away from the
\* verification, before or after.
OutOfWindow ==
  \/ verdict.at - verdict.req.token.iat > FreshnessWindow
  \/ verdict.req.token.iat - verdict.at > FreshnessWindow

\* C25: the request SendPushNotification makes for a payload, verified
\* unmodified within the freshness window by a receiver that trusts the signing
\* key, is accepted.
C25_RoundTrip ==
  (Verified /\ Unmodified /\ TrustsSigner /\ InWindow) => verdict.ok

\* C26: the verifier accepts a token only with the body that was signed and
\* sent; with a validly signed, fresh token and any other body it answers
\* digest mismatch.
C26_DigestBinding ==
  Verified =>
    /\ verdict.ok => verdict.req.body = verdict.signed.body
    /\ (/\ verdict.req.bearer
        /\ verdict.req.token = verdict.signed.token
        /\ TrustsSigner /\ InWindow
        /\ verdict.req.body /= verdict.signed.body) =>
         verdict.err = "digest mismatch"

\* C27: a validly signed token is answered with token expired exactly when its
\* issue time is outside the freshness window, and a token issued more than the
\* window before or after the verification is never accepted.
C27_Freshness ==
  (Verified /\ Unmodified /\ TrustsSigner) =>
    /\ OutOfWindow => verdict.err = "token expired"
    /\ InWindow => verdict.err /= "token expired"
    /\ OutOfWindow => ~verdict.ok

\* C29: the listener answers 200 only to a request that passes all three
\* checks of the verifier: signature, freshness, and the digest of the body
\* received.
C29_NoPartialTrust ==
  (verdict.op = "handleNotification" /\ verdict.status = 200) =>
    VerifyPushNotification(verdict.req, verdict.key, verdict.at) = ""

\* C30: the published keys keep every key generated so far, and a fresh,
\* unmodified request signed under any published key is accepted by a verifier
\* whose key comes from the published set.
C30_Rotation ==
  /\ \A k \in 1..Len(publicKeys) : publicKeys[k].pem.key = k
  /\ (/\ Verified /\ Unmodified /\ InWindow
      /\ DigestMatches(verdict.req)
      /\ verdict.signer \in verdict.published
      /\ verdict.key \in verdict.published) =>
       verdict.ok

\* C31: a token made by GenerateJWT is signed with the sender's signing key
\* and carries the key identifier published for that key's public half.
C31_ActiveKeyID ==
  sent.n > 0 =>
    /\ sent.req.token.sig.key = sent.signer
    /\ \E i \in 1..Len(publicKeys) :
         /\ publicKeys[i].pem.key = sent.signer
         /\ publicKeys[i].kid = sent.req.token.kid

\* C32: a challenge is answered true only when the GET and the reading of its
\* response went without error and the body the target sent is the token of
\* that very call.
C32_ChallengeExact ==
  \A u \in PushConfigs :
    (challenge[u].n > 0 /\ challenge[u].verified) =>
      /\ ~challenge[u].getErr /\ ~challenge[u].readErr
      /\ challenge[u].body = <<challenge[u].nonce>>

\* C33: a challenge of this repository's listener is answered true.
C33_ChallengeAgreement ==
  \A u \in PushConfigs :
    (challenge[u].n > 0 /\ challenge[u].target = "listener") => challenge[u].verified

\* C34: SendPushNotification returns no error only when the target answered
\* with success, and returns an error whenever the transport failed or the
\* target answered with another status.
C34_DeliveryReported ==
  sent.n > 0 => (sent.err = "" <=> sent.outcome = Delivered)

\* C35: under fair scheduling, with every stream read on, every call of
\* enqueueEventsForSSE that has begun returns.
C35_PublishReturns ==
  \A p \in Procs : (pc[p] \in {"enq_locked", "enq_read", "enq_send"}) ~> (pc[p] = "idle")

\* Caller p returns from OnSetTaskPushNotification in this step.
SetsPush(p) == pc[p] = "set_push" /\ pc'[p] = "idle"
\* Caller p returns from OnGetTaskPushNotification in this step.
GetsPush(p) == pc[p] = "get_push" /\ pc'[p] = "idle"

\* C36: a registration of a push notification target for an identifier with
\* no stored task fails with an empty result and registers nothing, every
\* registered target belongs to a stored task, a registration for a stored
\* task stores the config, and a read that follows returns the stored config.
C36_PushRegistration ==
  [][/\ DOMAIN pushNotificationInfos' \subseteq DOMAIN tasks'
     /\ \A p \in Procs :
          /\ SetsPush(p) =>
                LET id == hist'.last.id
                IN /\ hist'.last.op = "set_push"
                   /\ IF id \in DOMAIN tasks
                      THEN /\ hist'.last.ok
                           /\ hist'.last.config \in PushConfigs
                           /\ id \in DOMAIN pushNotificationInfos'
                           /\ pushNotificationInfos'[id] = hist'.last.config
                           /\ \A t \in DOMAIN pushNotificationInfos \ {id} :
                                pushNotificationInfos'[t] = pushNotificationInfos[t]
                      ELSE /\ ~hist'.last.ok
                           /\ hist'.last.config = "-"
                           /\ pushNotificationInfos' = pushNotificationInfos
          /\ (GetsPush(p) /\ hist'.last.id \in DOMAIN pushNotificationInfos) =>
                /\ hist'.last.ok
                /\ ~hist'.last.crash
                /\ hist'.last.config = pushNotificationInfos[hist'.last.id]]_vars

\* A registration for an identifier with no stored task has just failed
\* while the other task is stored and holds a target.
C36_Witness ==
  /\ hist.last.op = "set_push"
  /\ ~hist.last.ok
  /\ hist.last.id \notin DOMAIN tasks
  /\ DOMAIN pushNotificationInfos /= {}

\* A read of a stored task whose target was registered has just returned it.
C36_ReadBack ==
  /\ hist.last.op = "get_push"
  /\ hist.last.ok
  /\ hist.last.config = "u2"
  /\ pushNotificationInfos[hist.last.id] = "u2"

\* C37: a read of the push notification target of a stored task that has no
\* target registered ends without a nil pointer dereference and leaves the
\* stored tasks and the registrations as they were.
C37_ReadUnregistered ==
  [][\A p \in Procs :
       (GetsPush(p) /\ hist'.last.id \in DOMAIN tasks
          /\ hist'.last.id \notin DOMAIN pushNotificationInfos) =>
         /\ ~hist'.last.crash
         /\ tasks' = tasks
         /\ pushNotificationInfos' = pushNotificationInfos]_vars

\* C39: AreModalitiesCompatible reports compatible exactly when both slices
\* are non-empty and have a mode in common.
C39_Compatible ==
  modalities.n > 0 =>
    (modalities.compatible <=>
       /\ Len(modalities.server) > 0
       /\ Len(modalities.client) > 0
       /\ \E i \in 1..Len(modalities.server), j \in 1..Len(modalities.client) :
            modalities.server[i] = modalities.client[j])

\* The goroutine of subscriber c has received an error.
GotError(c) == \E i \in 1..Len(chans[c].recv) : chans[c].recv[i].kind = "error"

\* C38: a subscriber that is handed an error receives nothing after it; its
\* stream yields that error once, as its last response, under the subscriber's
\* correlation identifier; the goroutine then only unregisters the subscriber
\* and closes the stream, and nothing keeps it from doing so. A stream is
\* closed only with a final status update or an error as its last response,
\* and its subscriber is then out of the registry.
C38_ErrorEndsStream ==
  \A c \in Created :
    /\ \A i \in 1..Len(chans[c].recv) :
         chans[c].recv[i].kind = "error" => i = Len(chans[c].recv)
    /\ \A i \in 1..Len(chans[c].out) :
         chans[c].out[i].field = "Error" =>
           /\ i = Len(chans[c].out)
           /\ chans[c].out[i].ID = chans[c].req
           /\ chans[c].out[i].ev = chans[c].recv[i]
           /\ chans[c].out[i].ev.kind = "error"
    /\ \A i \in 1..Len(chans[c].out) :
         chans[c].out[i].ev.kind = "error" => chans[c].out[i].field = "Error"
    /\ GotError(c) => chans[c].pc \in {"fwd", "cleanup", "locked", "closing", "done"}
    /\ (GotError(c) /\ chans[c].pc = "fwd") => ENABLED Forward(c)
    /\ (GotError(c) /\ chans[c].pc = "locked") => ENABLED CleanupRemove(c)
    /\ (GotError(c) /\ chans[c].pc = "closing") => ENABLED Close(c)
    /\ chans[c].closed =>
         /\ chans[c].pc = "done"
         /\ Len(chans[c].out) > 0
         /\ chans[c].out[Len(chans[c].out)].ev.kind \in {"final", "error"}
         /\ c \notin Registered(chans[c].task)

\* A stream that yielded an error is closed with that one response, and a
\* Publish call on its task that no longer found the subscriber has returned.
C38_Witness ==
  \E c \in Created :
    /\ chans[c].closed
    /\ Len(chans[c].out) = 1
    /\ chans[c].out[1].field = "Error"
    /\ hist.last.op = "enqueue"
    /\ hist.last.id = chans[c].task
    /\ hist.last.ev.kind /= "error"
    /\ c \notin hist.last.snapSet

====
